---- MODULE Spec2Model ----
(***************************************************************************)
(* A model of plainkv: the on-disk linear-hashing hash map (package        *)
(* hashmap) and the on-disk B+ tree (package bptree), both living on a     *)
(* file storage that hands out regions by address.                         *)
(*                                                                         *)
(* Go slices are 0-based; the sequences below are 1-based.  An index i of  *)
(* the source is the index i+1 here, and "not found" (-1 in the source)    *)
(* is 0 here.  Addresses keep the source's convention: -1 means absent.    *)
(***************************************************************************)
EXTENDS Integers, Sequences, FiniteSets, TLC

(***************************************************************************)
(* Bounds of the model.                                                    *)
(***************************************************************************)
\* number of low bits of the 64-bit FNV-1a sum that the model carries
HashBits == 12
\* number of items the scale run of the hash map inserts before it deletes
MaxScaleItems == 13300
\* number of items below which the scale run adds and deletes in any order
SFreeItems == 400

(***************************************************************************)
(* Program constants of package hashmap.                                   *)
(***************************************************************************)
minMaxSlotDirCountShift == 3
slotDirLengthShift == 12
maxShortKeySize == 24

VARIABLES
    hm,     \* the HashMap struct (without the file storage pointer)
    hfs,    \* the file storage under the hash map: address -> region
    href,   \* reference key-to-value map the hash map is compared with
    hres,   \* result of the last hash map call and the reference's result
    hprimary, \* the primary space of the hash map's file storage
    sphase, \* phase of the scale run of the hash map: "fill" or "drain"
    tbpt,   \* the BPTree struct (without the file storage pointer)
    tfs,    \* the file storage under the B+ tree: address -> region
    tref,   \* reference key-to-value map the B+ tree is compared with
    tres,   \* whether the last B+ tree call returned what the reference returns
    tprimary, \* the primary space of the B+ tree's file storage
    tphase  \* phase of the B+ tree's client

hvars == <<hm, hfs, href, hres, hprimary, sphase>>

tvars == <<tbpt, tfs, tref, tres, tprimary, tphase>>

vars == <<hvars, tvars>>

(***************************************************************************)
(* Small helpers.                                                          *)
(***************************************************************************)
Pow2(n) == 2 ^ n

Min2(a, b) == IF a < b THEN a ELSE b

\* x & bit, for bit a power of two: is that bit of x set
BitSet(x, bit) == (x \div bit) % 2 = 1

\* x &^ bit, for bit a power of two
AndNot(x, bit) == IF BitSet(x, bit) THEN x - bit ELSE x

RECURSIVE Xor(_, _)
Xor(a, b) ==
    IF a = 0 THEN b
    ELSE IF b = 0 THEN a
    ELSE (((a % 2) + (b % 2)) % 2) + 2 * Xor(a \div 2, b \div 2)

Repeat(b, n) == [i \in 1..n |-> b]

(***************************************************************************)
(* The file storage (package fsm, outside this repository) is a function   *)
(* from the addresses of the live regions to their contents; a region is    *)
(* a record, kept as structured content, not as bytes.  AllocateSpace       *)
(* hands out the least free address.  contentFreeStorage is a storage that  *)
(* forgets what is written to it: every array element reads as -1, so       *)
(* every slot reads as empty.  The scale run of the hash map uses it.       *)
(***************************************************************************)
contentFreeStorage == [a \in {-1} |-> "content-free"]

isContentFree(fs) == -1 \in DOMAIN fs

\* the least address that is not the start of a live region
FreshAddr(fs) ==
    CHOOSE a \in 0..Cardinality(DOMAIN fs) :
        /\ a \notin DOMAIN fs
        /\ \A b \in 0..(a - 1) : b \in DOMAIN fs

\* FileStorage.AllocateSpace followed by writing the region's content
AllocateSpace(fs, region) ==
    IF isContentFree(fs) THEN [addr |-> 0, fs |-> fs]
    ELSE LET a == FreshAddr(fs)
         IN  [addr |-> a,
              fs |-> [x \in DOMAIN fs \cup {a} |-> IF x = a THEN region ELSE fs[x]]]

\* FileStorage.FreeSpace
FreeSpace(fs, addr) ==
    IF isContentFree(fs) THEN fs ELSE [x \in DOMAIN fs \ {addr} |-> fs[x]]

\* FileStorage.AccessSpace of an array of addresses: index -> address
accessArray(fs, addr) == IF isContentFree(fs) THEN <<>> ELSE fs[addr].ent

\* the elements of a set of integers in ascending order
RECURSIVE SetToSeq(_)
SetToSeq(set) ==
    IF set = {} THEN <<>>
    ELSE LET least == CHOOSE x \in set : \A y \in set : x <= y
         IN  <<least>> \o SetToSeq(set \ {least})

\* what an address of a region that is no longer live is renamed to
danglingAddr == 999999

\* The addresses FileStorage hands out are arbitrary.  renameAddr is the
\* new name of address a when the live regions are renamed 0, 1, 2, ... in
\* the order given
renameAddr(order, a) ==
    IF a < 0 THEN a
    ELSE IF \E i \in 1..Len(order) : order[i] = a
    THEN (CHOOSE i \in 1..Len(order) : order[i] = a) - 1
    ELSE danglingAddr

(***************************************************************************)
(* Package hashmap.                                                        *)
(***************************************************************************)
\* the low HashBits bits of FNV-1a/64: xor and multiplication modulo 2^64
\* never carry a high bit into a low one, so these bits are exact
fnvOffsetLow == 805
fnvPrimeLow == 435

\* the keys of the hash map's client: "e", "c", 25 times "x", the empty
\* key, "g", 25 times "y", "b"; the low two bits of their sums are
\* 00, 10, 11, 01, 10, 00, 01
HKeyList ==
    << <<101>>, <<99>>, Repeat(120, 25), <<>>, <<103>>, Repeat(121, 25), <<98>> >>

RECURSIVE fnvWrite(_, _)
fnvWrite(h, key) ==
    IF key = <<>> THEN h
    ELSE fnvWrite((Xor(h, Head(key)) * fnvPrimeLow) % Pow2(HashBits), Tail(key))

\* the sums of the client's keys, computed once
knownKeySums == [i \in 1..Len(HKeyList) |-> fnvWrite(fnvOffsetLow, HKeyList[i])]

sumKey(key) ==
    IF \E i \in 1..Len(HKeyList) : HKeyList[i] = key
    THEN knownKeySums[CHOOSE i \in 1..Len(HKeyList) : HKeyList[i] = key]
    ELSE fnvWrite(fnvOffsetLow, key)

\* loadFactor() > maxLoadFactor.  maxLoadFactor is the golden ratio, the
\* positive root of x^2 - x - 1, so n/s exceeds it iff n^2 - n*s - s^2 > 0.
\* The golden ratio lies between 3/2 and 9/5: the quadratic form is worked
\* out between these two only, where its products stay small
loadFactorAboveMax(itemCount, slotCount) ==
    IF 2 * itemCount <= 3 * slotCount THEN FALSE
    ELSE IF 5 * itemCount >= 9 * slotCount THEN TRUE
    ELSE itemCount * (itemCount - slotCount) - slotCount * slotCount > 0

\* loadFactor() < minLoadFactor, minLoadFactor being maxLoadFactor / 2:
\* n/s is below it iff 4*n^2 - 2*n*s - s^2 < 0, and it lies between 4/5
\* and 9/10
\* loadFactor() < minLoadFactor with a quarter in place of minLoadFactor
loadFactorBelowMin_quarter(itemCount, slotCount) == 4 * itemCount < slotCount

loadFactorBelowMin(itemCount, slotCount) ==
    IF 10 * itemCount >= 9 * slotCount THEN FALSE
    ELSE IF 5 * itemCount <= 4 * slotCount THEN TRUE
    ELSE (2 * itemCount) * (2 * itemCount - slotCount) - slotCount * slotCount < 0

minSlotCount(h) == Pow2(h.minSlotCountShift)

maxSlotCountPlusOne(h) == Pow2(h.minSlotCountShift + 1)

calculateLowSlotIndex(h, highSlotIndex) == AndNot(highSlotIndex, minSlotCount(h))

calculateSlotIndex(h, keySum) ==
    LET slotIndex == keySum % maxSlotCountPlusOne(h)
    IN  IF slotIndex >= h.slotCount
        THEN calculateLowSlotIndex(h, slotIndex)
        ELSE slotIndex

\* addrRef.Get / addrRef.Set: element ElementIndex of the array at ArrayAddr
addrRefGet(fs, ar) ==
    IF isContentFree(fs) THEN -1 ELSE accessArray(fs, ar.ArrayAddr)[ar.ElementIndex]

addrRefSet(fs, ar, value) ==
    LET old == accessArray(fs, ar.ArrayAddr)
        new == IF ar.ElementIndex \in DOMAIN old
               THEN [old EXCEPT ![ar.ElementIndex] = value]
               ELSE [i \in DOMAIN old \cup {ar.ElementIndex} |->
                        IF i = ar.ElementIndex THEN value ELSE old[i]]
    IN  IF isContentFree(fs) THEN fs ELSE [fs EXCEPT ![ar.ArrayAddr].ent = new]

locateSlotDirAddr(h, slotDirIndex) ==
    [ArrayAddr |-> h.slotDirsAddr, ElementIndex |-> slotDirIndex]

locateSlotAddr(h, fs, slotIndex) ==
    [ArrayAddr |-> addrRefGet(fs, locateSlotDirAddr(h, slotIndex \div Pow2(slotDirLengthShift))),
     ElementIndex |-> slotIndex % Pow2(slotDirLengthShift)]

emptySlot == [ItemInfos |-> <<>>, Bin |-> <<>>]

RECURSIVE concatItems(_)
concatItems(items) ==
    IF items = <<>> THEN <<>>
    ELSE Head(items).Key \o Head(items).Value \o concatItems(Tail(items))

packSlot(items) ==
    LET n == Len(items)
    IN  IF n = 0 THEN emptySlot
        ELSE [ItemInfos |->
                 [j \in 1..n |->
                     [KeySum |-> items[j].KeySum,
                      KeySize |-> Len(items[j].Key),
                      \* optimization for binary size: the last size is 0
                      ValueSize |-> IF j = n THEN 0 ELSE Len(items[j].Value)]],
              Bin |-> concatItems(items)]

\* offset in Bin at which the key of item j starts (0-based offset)
RECURSIVE binOffset(_, _)
binOffset(infos, j) ==
    IF j = 1 THEN 0
    ELSE binOffset(infos, j - 1) + infos[j - 1].KeySize + infos[j - 1].ValueSize

\* unpackSlot that trusts the stored size of the last value
unpackSlot_storedSizes(slot) ==
    LET n == Len(slot.ItemInfos)
    IN  [j \in 1..n |->
            LET info == slot.ItemInfos[j]
                i == binOffset(slot.ItemInfos, j)
            IN  [KeySum |-> info.KeySum,
                 Key |-> SubSeq(slot.Bin, i + 1, i + info.KeySize),
                 Value |-> SubSeq(slot.Bin, i + info.KeySize + 1,
                                  i + info.KeySize + info.ValueSize)]]

unpackSlot(slot) ==
    LET n == Len(slot.ItemInfos)
    IN  [j \in 1..n |->
            LET info == slot.ItemInfos[j]
                i == binOffset(slot.ItemInfos, j)
            IN  [KeySum |-> info.KeySum,
                 Key |-> SubSeq(slot.Bin, i + 1, i + info.KeySize),
                 \* the last value is whatever is left of Bin
                 Value |-> IF j = n
                           THEN SubSeq(slot.Bin, i + info.KeySize + 1, Len(slot.Bin))
                           ELSE SubSeq(slot.Bin, i + info.KeySize + 1,
                                       i + info.KeySize + info.ValueSize)]]

\* storeSlot: returns the address (-1 for an empty slot) and the storage
storeSlot(fs, slot) ==
    IF Len(slot.ItemInfos) = 0
    THEN [addr |-> -1, fs |-> fs]
    ELSE AllocateSpace(fs, [kind |-> "slot", slot |-> slot])

eraseSlot(fs, slotAddr) == IF slotAddr < 0 THEN fs ELSE FreeSpace(fs, slotAddr)

restoreSlot(fs, slotAddr, slot) == storeSlot(eraseSlot(fs, slotAddr), slot)

loadSlot(fs, slotAddr) == IF slotAddr < 0 THEN emptySlot ELSE fs[slotAddr].slot

matchItem(item, key, keySum) ==
    IF Len(item.Key) > maxShortKeySize /\ item.KeySum # keySum
    THEN FALSE
    ELSE item.Key = key

\* splitItems that moves no item
splitItems_keepsAll(items, distinctKeySumBit) == [items1 |-> items, items2 |-> <<>>]

splitItems(items, distinctKeySumBit) ==
    LET keySumOf(item) == IF Len(item.Key) <= maxShortKeySize
                          THEN sumKey(item.Key)
                          ELSE item.KeySum
        moved(item) == BitSet(keySumOf(item), distinctKeySumBit)
    IN  [items1 |-> SelectSeq(items, LAMBDA item : ~moved(item)),
         items2 |-> SelectSeq(items, LAMBDA item : moved(item))]

\* the running product x of mergeItems after the pairs 1..i, modulo 2
RECURSIVE mergeParity(_, _, _)
mergeParity(items1, items2, i) ==
    IF i = 0 THEN 1
    ELSE (mergeParity(items1, items2, i - 1)
            * ((Len(items1[i].Key) + Len(items2[i].Key)) % 2)) % 2

\* mergeItems without the two copies of the rest of the longer list
mergeItems_pairsOnly(items1, items2) ==
    LET n == Min2(Len(items1), Len(items2))
    IN  [k \in 1..(2 * n) |->
            LET i == (k + 1) \div 2
                j == mergeParity(items1, items2, i)
            IN  IF (k - 1) % 2 = j THEN items1[i] ELSE items2[i]]

mergeItems(items1, items2) ==
    LET n1 == Len(items1)
        n2 == Len(items2)
        n == Min2(n1, n2)
    IN  [k \in 1..(n1 + n2) |->
            IF k <= 2 * n
            THEN LET i == (k + 1) \div 2            \* the pair, 1-based
                     j == mergeParity(items1, items2, i)
                     pos == (k - 1) % 2             \* position within the pair
                 IN  IF pos = j THEN items1[i] ELSE items2[i]
            ELSE IF n1 > n THEN items1[k - n] ELSE items2[k - n]]

\* the state S of the hash map is the record [hm |-> struct, fs |-> storage]

\* adjustSlotDirs that copies the first two addresses the other way round
adjustSlotDirs_swapsTwo(S, maxSlotDirCountShift) ==
    LET old == accessArray(S.fs, S.hm.slotDirsAddr)
        fs1 == FreeSpace(S.fs, S.hm.slotDirsAddr)
        kept == [i \in {x \in DOMAIN old : x < Pow2(maxSlotDirCountShift)} |->
                    old[IF i = 0 THEN 1 ELSE IF i = 1 THEN 0 ELSE i]]
        a == AllocateSpace(fs1, [kind |-> "dirs", ent |-> kept])
    IN  [hm |-> [S.hm EXCEPT !.slotDirsAddr = a.addr,
                             !.maxSlotDirCountShift = maxSlotDirCountShift],
         fs |-> a.fs]

adjustSlotDirs(S, maxSlotDirCountShift) ==
    LET old == accessArray(S.fs, S.hm.slotDirsAddr)
        fs1 == FreeSpace(S.fs, S.hm.slotDirsAddr)
        \* copy(buffer1, buffer2) copies as much as fits in the new array
        kept == [i \in {x \in DOMAIN old : x < Pow2(maxSlotDirCountShift)} |-> old[i]]
        a == AllocateSpace(fs1, [kind |-> "dirs", ent |-> kept])
    IN  [hm |-> [S.hm EXCEPT !.slotDirsAddr = a.addr,
                             !.maxSlotDirCountShift = maxSlotDirCountShift],
         fs |-> a.fs]

addSlotDir(S) ==
    LET S1 == IF S.hm.slotDirCount = Pow2(S.hm.maxSlotDirCountShift)
              THEN adjustSlotDirs(S, S.hm.maxSlotDirCountShift + 1)
              ELSE S
        \* the new directory is not initialized
        a == AllocateSpace(S1.fs, [kind |-> "dir", ent |-> <<>>])
    IN  [hm |-> [S1.hm EXCEPT !.slotDirCount = @ + 1],
         fs |-> addrRefSet(a.fs, locateSlotDirAddr(S1.hm, S1.hm.slotDirCount), a.addr)]

\* removeSlotDir that never makes the array of the slot directories smaller
removeSlotDir_keepCapacity(S) ==
    LET slotDirAddr == addrRefGet(S.fs, locateSlotDirAddr(S.hm, S.hm.slotDirCount - 1))
    IN  [hm |-> [S.hm EXCEPT !.slotDirCount = @ - 1],
         fs |-> FreeSpace(S.fs, slotDirAddr)]

removeSlotDir(S) ==
    LET slotDirAddr == addrRefGet(S.fs, locateSlotDirAddr(S.hm, S.hm.slotDirCount - 1))
        S1 == [hm |-> [S.hm EXCEPT !.slotDirCount = @ - 1],
               fs |-> FreeSpace(S.fs, slotDirAddr)]
    IN  IF /\ S1.hm.maxSlotDirCountShift > minMaxSlotDirCountShift
           /\ S1.hm.slotDirCount = Pow2(S1.hm.maxSlotDirCountShift - 2)
        THEN adjustSlotDirs(S1, S1.hm.maxSlotDirCountShift - 1)
        ELSE S1

addSlot(S, slot) ==
    LET S1 == IF S.hm.slotCount = S.hm.slotDirCount * Pow2(slotDirLengthShift)
              THEN addSlotDir(S)
              ELSE S
        ref == locateSlotAddr(S1.hm, S1.fs, S1.hm.slotCount)
        st == storeSlot(S1.fs, slot)
        h2 == [S1.hm EXCEPT !.slotCount = @ + 1]
    IN  [hm |-> IF h2.slotCount = maxSlotCountPlusOne(h2)
                THEN [h2 EXCEPT !.minSlotCountShift = @ + 1]
                ELSE h2,
         fs |-> addrRefSet(st.fs, ref, st.addr)]

\* removeSlot that lowers minSlotCountShift one slot too early
removeSlot_earlyShift(S) ==
    LET slotAddr == addrRefGet(S.fs, locateSlotAddr(S.hm, S.fs, S.hm.slotCount - 1))
        slot == loadSlot(S.fs, slotAddr)
        h1 == [S.hm EXCEPT !.slotCount = @ - 1]
        h2 == IF h1.slotCount <= minSlotCount(h1) /\ h1.minSlotCountShift > 0
              THEN [h1 EXCEPT !.minSlotCountShift = @ - 1]
              ELSE h1
        S2 == [hm |-> h2, fs |-> eraseSlot(S.fs, slotAddr)]
    IN  [slot |-> slot,
         S |-> IF /\ h2.slotDirCount >= 2
                  /\ h2.slotCount = (h2.slotDirCount - 2) * Pow2(slotDirLengthShift) + 1
               THEN removeSlotDir(S2)
               ELSE S2]

\* removeSlot that never gives a slot directory back
removeSlot_keepDirs(S) ==
    LET slotAddr == addrRefGet(S.fs, locateSlotAddr(S.hm, S.fs, S.hm.slotCount - 1))
        slot == loadSlot(S.fs, slotAddr)
        h1 == [S.hm EXCEPT !.slotCount = @ - 1]
        h2 == IF h1.slotCount < minSlotCount(h1)
              THEN [h1 EXCEPT !.minSlotCountShift = @ - 1]
              ELSE h1
    IN  [slot |-> slot, S |-> [hm |-> h2, fs |-> eraseSlot(S.fs, slotAddr)]]

\* removeSlot: returns the removed slot and the new state
removeSlot(S) ==
    LET slotAddr == addrRefGet(S.fs, locateSlotAddr(S.hm, S.fs, S.hm.slotCount - 1))
        slot == loadSlot(S.fs, slotAddr)
        h1 == [S.hm EXCEPT !.slotCount = @ - 1]
        h2 == IF h1.slotCount < minSlotCount(h1)
              THEN [h1 EXCEPT !.minSlotCountShift = @ - 1]
              ELSE h1
        S2 == [hm |-> h2, fs |-> eraseSlot(S.fs, slotAddr)]
    IN  [slot |-> slot,
         S |-> IF /\ h2.slotDirCount >= 2
                  /\ h2.slotCount = (h2.slotDirCount - 2) * Pow2(slotDirLengthShift) + 1
               THEN removeSlotDir(S2)
               ELSE S2]

\* one turn of the loop of maybeExpand
expandOnce(S) ==
    LET slotIndex == calculateLowSlotIndex(S.hm, S.hm.slotCount)
        slotAddrRef == locateSlotAddr(S.hm, S.fs, slotIndex)
        slotAddr == addrRefGet(S.fs, slotAddrRef)
        sp == splitItems(unpackSlot(loadSlot(S.fs, slotAddr)), minSlotCount(S.hm))
        st == restoreSlot(S.fs, slotAddr, packSlot(sp.items1))
    IN  addSlot([hm |-> S.hm, fs |-> addrRefSet(st.fs, slotAddrRef, st.addr)],
                packSlot(sp.items2))

RECURSIVE maybeExpand(_)
maybeExpand(S) ==
    IF loadFactorAboveMax(S.hm.itemCount, S.hm.slotCount)
    THEN maybeExpand(expandOnce(S))
    ELSE S

\* one turn of the loop of maybeShrink
shrinkOnce(S) ==
    LET rm == removeSlot(S)
        S1 == rm.S
        items1 == unpackSlot(rm.slot)
        slotIndex == calculateLowSlotIndex(S1.hm, S1.hm.slotCount)
        slotAddrRef == locateSlotAddr(S1.hm, S1.fs, slotIndex)
        slotAddr == addrRefGet(S1.fs, slotAddrRef)
        items2 == unpackSlot(loadSlot(S1.fs, slotAddr))
        st == restoreSlot(S1.fs, slotAddr, packSlot(mergeItems(items1, items2)))
    IN  [hm |-> S1.hm, fs |-> addrRefSet(st.fs, slotAddrRef, st.addr)]

\* maybeShrink that merges at most one slot
maybeShrink_once(S) ==
    IF S.hm.slotCount >= 2 /\ loadFactorBelowMin(S.hm.itemCount, S.hm.slotCount)
    THEN shrinkOnce(S)
    ELSE S

RECURSIVE maybeShrink(_)
maybeShrink(S) ==
    IF S.hm.slotCount >= 2 /\ loadFactorBelowMin(S.hm.itemCount, S.hm.slotCount)
    THEN maybeShrink(shrinkOnce(S))
    ELSE S

postAddItem(S) == maybeExpand([S EXCEPT !.hm.itemCount = @ + 1])

postDeleteItem(S) == maybeShrink([S EXCEPT !.hm.itemCount = @ - 1])

\* index of the first item matching the key, 0 if there is none
firstMatch(itemSeq, key, keySum) ==
    LET hits == {i \in 1..Len(itemSeq) : matchItem(itemSeq[i], key, keySum)}
    IN  IF hits = {} THEN 0 ELSE CHOOSE i \in hits : \A j \in hits : i <= j

\* locateItem: the items of the key's slot and the index of the key in them
locateItem(S, key, keySum) ==
    LET ref == locateSlotAddr(S.hm, S.fs, calculateSlotIndex(S.hm, keySum))
        addr == addrRefGet(S.fs, ref)
        val == unpackSlot(loadSlot(S.fs, addr))
    IN  [items |-> [SlotAddrRef |-> ref, SlotAddr |-> addr, Value |-> val],
         i |-> firstMatch(val, key, keySum)]

flushItems(S, items) ==
    LET st == restoreSlot(S.fs, items.SlotAddr, packSlot(items.Value))
    IN  [hm |-> S.hm, fs |-> addrRefSet(st.fs, items.SlotAddrRef, st.addr)]

\* appendItem up to postAddItem: the slot of the item is written back
itemAppended(S, items, item) ==
    LET S1 == [S EXCEPT !.hm.payloadSize = @ + Len(item.Key) + Len(item.Value)]
        \* optimization for binary size
        item1 == IF Len(item.Key) <= maxShortKeySize
                 THEN [item EXCEPT !.KeySum = 0]
                 ELSE item
    IN  flushItems(S1, [items EXCEPT !.Value = Append(@, item1)])

appendItem(S, items, item) == postAddItem(itemAppended(S, items, item))

\* a call's outcome: the returned value, the returned flag, the new state
getValue(items, i, do) == IF do THEN items.Value[i].Value ELSE <<>>

\* removeItem up to postDeleteItem: the slot of the item is written back
itemRemoved(S, items, i) ==
    LET item == items.Value[i]
        S1 == [S EXCEPT !.hm.payloadSize = @ - (Len(item.Key) + Len(item.Value))]
        n == Len(items.Value)
        rest == SubSeq(items.Value, 1, i - 1) \o SubSeq(items.Value, i + 1, n)
    IN  flushItems(S1, [items EXCEPT !.Value = rest])

removeItem(S, items, i, returnRemovedValue) ==
    [value |-> IF returnRemovedValue THEN items.Value[i].Value ELSE <<>>,
     S |-> postDeleteItem(itemRemoved(S, items, i))]

\* replaceValue that leaves payloadSize as it was
replaceValue_keepsPayload(S, items, i, value, returnReplacedValue) ==
    LET item == items.Value[i]
    IN  [value |-> IF returnReplacedValue THEN item.Value ELSE <<>>,
         S |-> flushItems(S, [items EXCEPT !.Value[i].Value = value])]

replaceValue(S, items, i, value, returnReplacedValue) ==
    LET item == items.Value[i]
        S1 == [S EXCEPT !.hm.payloadSize = @ + Len(value) - Len(item.Value)]
    IN  [value |-> IF returnReplacedValue THEN item.Value ELSE <<>>,
         S |-> flushItems(S1, [items EXCEPT !.Value[i].Value = value])]

\* AddItem that replaces the value of a present key
AddItem_replaces(S, key, value, returnPresentValue) ==
    LET keySum == sumKey(key)
        loc == locateItem(S, key, keySum)
    IN  IF loc.i >= 1
        THEN LET r == replaceValue(S, loc.items, loc.i, value, returnPresentValue)
             IN  [value |-> r.value, ok |-> FALSE, S |-> r.S]
        ELSE [value |-> <<>>, ok |-> TRUE,
              S |-> appendItem(S, loc.items, [KeySum |-> keySum, Key |-> key, Value |-> value])]

AddItem(S, key, value, returnPresentValue) ==
    LET keySum == sumKey(key)
        loc == locateItem(S, key, keySum)
    IN  IF loc.i >= 1
        THEN [value |-> getValue(loc.items, loc.i, returnPresentValue), ok |-> FALSE, S |-> S]
        ELSE [value |-> <<>>, ok |-> TRUE,
              S |-> appendItem(S, loc.items, [KeySum |-> keySum, Key |-> key, Value |-> value])]

UpdateItem(S, key, value, returnReplacedValue) ==
    LET keySum == sumKey(key)
        loc == locateItem(S, key, keySum)
    IN  IF loc.i < 1
        THEN [value |-> <<>>, ok |-> FALSE, S |-> S]
        ELSE LET r == replaceValue(S, loc.items, loc.i, value, returnReplacedValue)
             IN  [value |-> r.value, ok |-> TRUE, S |-> r.S]

AddOrUpdateItem(S, key, value, returnReplacedValue) ==
    LET keySum == sumKey(key)
        loc == locateItem(S, key, keySum)
    IN  IF loc.i >= 1
        THEN LET r == replaceValue(S, loc.items, loc.i, value, returnReplacedValue)
             IN  [value |-> r.value, ok |-> FALSE, S |-> r.S]
        ELSE [value |-> <<>>, ok |-> TRUE,
              S |-> appendItem(S, loc.items, [KeySum |-> keySum, Key |-> key, Value |-> value])]

\* what DeleteItem returns when removeItem returned r
removedItem(r) == [value |-> r.value, ok |-> TRUE, S |-> r.S]

DeleteItem(S, key, returnRemovedValue) ==
    LET keySum == sumKey(key)
        loc == locateItem(S, key, keySum)
    IN  IF loc.i < 1
        THEN [value |-> <<>>, ok |-> FALSE, S |-> S]
        ELSE removedItem(removeItem(S, loc.items, loc.i, returnRemovedValue))

HasItem(S, key, returnPresentValue) ==
    LET keySum == sumKey(key)
        loc == locateItem(S, key, keySum)
    IN  IF loc.i < 1
        THEN [value |-> <<>>, ok |-> FALSE]
        ELSE [value |-> getValue(loc.items, loc.i, returnPresentValue), ok |-> TRUE]

\* HashMap.Init followed by HashMap.Create on an empty file storage
hmInit ==
    [slotDirsAddr |-> -1, maxSlotDirCountShift |-> 0, slotDirCount |-> 0,
     minSlotCountShift |-> 0, slotCount |-> 0, itemCount |-> 0, payloadSize |-> 0]

Create(fs) ==
    LET a1 == AllocateSpace(fs, [kind |-> "dirs", ent |-> <<>>])
        a2 == AllocateSpace(a1.fs, [kind |-> "dir", ent |-> <<>>])
        \* buffer1[0] = slotDirAddr, buffer2[0] = -1
        fs1 == addrRefSet(a2.fs, [ArrayAddr |-> a1.addr, ElementIndex |-> 0], a2.addr)
        fs2 == addrRefSet(fs1, [ArrayAddr |-> a2.addr, ElementIndex |-> 0], -1)
    IN  [hm |-> [hmInit EXCEPT !.slotDirsAddr = a1.addr,
                               !.maxSlotDirCountShift = minMaxSlotDirCountShift,
                               !.slotDirCount = 1,
                               !.slotCount = 1],
         fs |-> fs2]

\* Destroy that frees the array of the slot directories only
Destroy_keepsDir(S) ==
    [hm |-> hmInit, fs |-> FreeSpace(S.fs, S.hm.slotDirsAddr)]

\* Destroy: the address of the first slot directory is read from the array of
\* the slot directories, the two regions are freed and the struct is
\* initialized again
Destroy(S) ==
    LET slotDirAddr == addrRefGet(S.fs, [ArrayAddr |-> S.hm.slotDirsAddr, ElementIndex |-> 0])
    IN  [hm |-> hmInit,
         fs |-> FreeSpace(FreeSpace(S.fs, S.hm.slotDirsAddr), slotDirAddr)]

\* Store that writes the slot count in place of the item count
Store_swappedCount(S) ==
    LET info == [SlotDirsAddr |-> S.hm.slotDirsAddr,
                 MaxSlotDirCountShift |-> S.hm.maxSlotDirCountShift,
                 SlotDirCount |-> S.hm.slotDirCount,
                 MinSlotCountShift |-> S.hm.minSlotCountShift,
                 SlotCount |-> S.hm.slotCount,
                 ItemCount |-> S.hm.slotCount,
                 PayloadSize |-> S.hm.payloadSize]
        a == AllocateSpace(S.fs, [kind |-> "info", info |-> info])
    IN  [infoAddr |-> a.addr, S |-> [hm |-> hmInit, fs |-> a.fs]]

\* Store: the info address and the state left behind (a re-initialized
\* struct); the region holds the fields of protocol.HashMapInfo
Store(S) ==
    LET info == [SlotDirsAddr |-> S.hm.slotDirsAddr,
                 MaxSlotDirCountShift |-> S.hm.maxSlotDirCountShift,
                 SlotDirCount |-> S.hm.slotDirCount,
                 MinSlotCountShift |-> S.hm.minSlotCountShift,
                 SlotCount |-> S.hm.slotCount,
                 ItemCount |-> S.hm.itemCount,
                 PayloadSize |-> S.hm.payloadSize]
        a == AllocateSpace(S.fs, [kind |-> "info", info |-> info])
    IN  [infoAddr |-> a.addr, S |-> [hm |-> hmInit, fs |-> a.fs]]

\* Load that leaves the region of the info allocated
Load_keepsInfo(S, infoAddr) ==
    LET info == S.fs[infoAddr].info
    IN  [hm |-> [slotDirsAddr |-> info.SlotDirsAddr,
                 maxSlotDirCountShift |-> info.MaxSlotDirCountShift,
                 slotDirCount |-> info.SlotDirCount,
                 minSlotCountShift |-> info.MinSlotCountShift,
                 slotCount |-> info.SlotCount,
                 itemCount |-> info.ItemCount,
                 payloadSize |-> info.PayloadSize],
         fs |-> S.fs]

Load(S, infoAddr) ==
    LET info == S.fs[infoAddr].info
    IN  [hm |-> [slotDirsAddr |-> info.SlotDirsAddr,
                 maxSlotDirCountShift |-> info.MaxSlotDirCountShift,
                 slotDirCount |-> info.SlotDirCount,
                 minSlotCountShift |-> info.MinSlotCountShift,
                 slotCount |-> info.SlotCount,
                 itemCount |-> info.ItemCount,
                 payloadSize |-> info.PayloadSize],
         fs |-> FreeSpace(S.fs, infoAddr)]

\* The regions of the hash map in the order slot directory array, slot
\* directories, slots by slot index, followed by every other live region
hRegionOrder(h, fs) ==
    LET dirs == [i \in 1..h.slotDirCount |-> addrRefGet(fs, locateSlotDirAddr(h, i - 1))]
        slots == [i \in 1..h.slotCount |-> addrRefGet(fs, locateSlotAddr(h, fs, i - 1))]
        reach == <<h.slotDirsAddr>> \o dirs \o SelectSeq(slots, LAMBDA a : a >= 0)
    IN  reach \o SetToSeq(DOMAIN fs \ {reach[i] : i \in 1..Len(reach)})

\* The storage with its regions renamed in that order.  The elements of the
\* arrays past slotDirCount and slotCount hold stale addresses that nothing
\* reads before it is written again; the renamed arrays leave them out
hRenameStorage(h, fs, order) ==
    [a \in 0..(Len(order) - 1) |->
        LET r == fs[order[a + 1]]
            live == IF r.kind = "dirs" THEN h.slotDirCount
                    ELSE IF a = 0 THEN 0
                    ELSE h.slotCount - (a - 1) * Pow2(slotDirLengthShift)
        IN  IF r.kind \in {"dirs", "dir"}
            THEN [r EXCEPT !.ent = [i \in {x \in DOMAIN r.ent : x < live} |->
                                       renameAddr(order, r.ent[i])]]
            ELSE IF r.kind = "info"
            THEN [r EXCEPT !.info.SlotDirsAddr = renameAddr(order, @)]
            ELSE r]

\* an open hash map with its regions renamed
hRenamed(S) ==
    LET order == hRegionOrder(S.hm, S.fs)
    IN  [hm |-> [S.hm EXCEPT !.slotDirsAddr = renameAddr(order, @)],
         fs |-> hRenameStorage(S.hm, S.fs, order)]

\* a stored hash map with its regions renamed: the new info address and
\* the new storage
hRenamedStored(fs, infoAddr) ==
    LET info == fs[infoAddr].info
        h == [slotDirsAddr |-> info.SlotDirsAddr, slotDirCount |-> info.SlotDirCount,
              slotCount |-> info.SlotCount]
        order == hRegionOrder(h, fs)
    IN  [infoAddr |-> renameAddr(order, infoAddr), fs |-> hRenameStorage(h, fs, order)]

\* FetchItem: the fetched key and value, the flag and the advanced cursor
zeroCursor == [items |-> <<>>, itemIndex |-> 0, slotIndex |-> 0]

\* fetchFromSlots that puts the cursor on the first item of the slot it loads
RECURSIVE fetchFromSlots_onFirst(_, _)
fetchFromSlots_onFirst(S, cursor) ==
    IF cursor.slotIndex < S.hm.slotCount
    THEN LET slot == loadSlot(S.fs, addrRefGet(S.fs, locateSlotAddr(S.hm, S.fs, cursor.slotIndex)))
             c1 == [cursor EXCEPT !.items = unpackSlot(slot), !.slotIndex = @ + 1]
         IN  IF Len(c1.items) >= 1
             THEN [key |-> c1.items[1].Key, value |-> c1.items[1].Value, ok |-> TRUE,
                   cursor |-> [c1 EXCEPT !.itemIndex = 0]]
             ELSE fetchFromSlots_onFirst(S, c1)
    ELSE [key |-> <<>>, value |-> <<>>, ok |-> FALSE, cursor |-> cursor]

RECURSIVE fetchFromSlots(_, _)
fetchFromSlots(S, cursor) ==
    IF cursor.slotIndex < S.hm.slotCount
    THEN LET slot == loadSlot(S.fs, addrRefGet(S.fs, locateSlotAddr(S.hm, S.fs, cursor.slotIndex)))
             c1 == [cursor EXCEPT !.items = unpackSlot(slot), !.slotIndex = @ + 1]
         IN  IF Len(c1.items) >= 1
             THEN [key |-> c1.items[1].Key, value |-> c1.items[1].Value, ok |-> TRUE,
                   cursor |-> [c1 EXCEPT !.itemIndex = 1]]
             ELSE fetchFromSlots(S, c1)
    ELSE [key |-> <<>>, value |-> <<>>, ok |-> FALSE, cursor |-> cursor]

\* FetchItem that leaves the cursor's slot before its last item
FetchItem_skipsLast(S, cursor) ==
    IF cursor.itemIndex + 1 < Len(cursor.items)
    THEN LET item == cursor.items[cursor.itemIndex + 1]
         IN  [key |-> item.Key, value |-> item.Value, ok |-> TRUE,
              cursor |-> [cursor EXCEPT !.itemIndex = @ + 1]]
    ELSE fetchFromSlots(S, cursor)

FetchItem(S, cursor) ==
    IF cursor.itemIndex < Len(cursor.items)
    THEN LET item == cursor.items[cursor.itemIndex + 1]
         IN  [key |-> item.Key, value |-> item.Value, ok |-> TRUE,
              cursor |-> [cursor EXCEPT !.itemIndex = @ + 1]]
    ELSE fetchFromSlots(S, cursor)

\* the pairs that repeated FetchItem calls return, from the given cursor on
RECURSIVE scanFrom(_, _)
scanFrom(S, cursor) ==
    LET f == FetchItem(S, cursor)
    IN  IF f.ok THEN <<[key |-> f.key, value |-> f.value]>> \o scanFrom(S, f.cursor)
        ELSE <<>>

\* the cursor that repeated FetchItem calls leave when no item is left
RECURSIVE scanEnd(_, _)
scanEnd(S, cursor) ==
    LET f == FetchItem(S, cursor)
    IN  IF f.ok THEN scanEnd(S, f.cursor) ELSE cursor

(***************************************************************************)
(* Package bptree.                                                         *)
(*                                                                         *)
(* A byte string is the record [head, pad, ptr]: the bytes of head         *)
(* followed by pad zero bytes; head never ends in a zero byte.  ptr tells  *)
(* the slice that is the variable MinKey or MaxKey itself ("MinKey",       *)
(* "MaxKey") from every other slice (""), as isMinKey and isMaxKey compare *)
(* data pointers.                                                          *)
(*                                                                         *)
(* A key or value on a page is the record [pre, addr]: the bytes pre,      *)
(* followed, when addr >= 0, by the eight bytes of the overflow address.   *)
(* A leaf is the region [kind, prev, next, recs, overrun] and a non-leaf   *)
(* the region [kind, children, overrun]: the record and child headers and  *)
(* the keys and values they delimit, in index order.  overrun tells that   *)
(* more was written to the page than the page holds.                       *)
(***************************************************************************)
leafSize == 8192
leafHeaderSize == 20
recordHeaderSize == 8
maxKeySize == 257
keyPrefixSize == maxKeySize - 8
maxValueSize == 129
maxLeafFreeSpaceSize == leafSize - leafHeaderSize
maxRecordSize == recordHeaderSize + maxKeySize + maxValueSize
leafOverloadThreshold == maxLeafFreeSpaceSize - maxRecordSize
leafUnderloadThreshold == (leafOverloadThreshold - maxRecordSize) \div 2 + 1
nonLeafSize == 8192
nonLeafHeaderSize == 4
nonLeafChildHeaderSize == 12
maxNonLeafFreeSpaceSize == nonLeafSize - nonLeafHeaderSize
maxNonLeafChildSize == nonLeafChildHeaderSize + maxKeySize
nonLeafOverloadThreshold == maxNonLeafFreeSpaceSize - maxNonLeafChildSize
nonLeafUnderloadThreshold == (nonLeafOverloadThreshold - maxNonLeafChildSize) \div 2 + 1

Max2(a, b) == IF a < b THEN b ELSE a

Sign(d) == IF d < 0 THEN -1 ELSE IF d > 0 THEN 1 ELSE 0

\* the byte string head . 0^pad, with the trailing zeros of head moved to pad
lastNonZero(head) ==
    LET nonZero == {i \in 1..Len(head) : head[i] # 0}
    IN  IF nonZero = {} THEN 0
        ELSE CHOOSE i \in nonZero : \A j \in nonZero : j <= i

bytesOf(head, pad, n) ==
    [head |-> SubSeq(head, 1, n), pad |-> pad + (Len(head) - n), ptr |-> ""]

mkBytes(head, pad) == bytesOf(head, pad, lastNonZero(head))

bytesLen(b) == Len(b.head) + b.pad

byteAt(b, i) == IF i <= Len(b.head) THEN b.head[i] ELSE 0

\* bytes.Compare
\* the first of the positions 1..n where a and b differ, 0 if there is none
firstDiff(a, b, n) ==
    LET diff == {i \in 1..n : byteAt(a, i) # byteAt(b, i)}
    IN  IF diff = {} THEN 0
        ELSE CHOOSE x \in diff : \A y \in diff : x <= y

compareAt(a, b, i) ==
    IF i = 0 THEN Sign(bytesLen(a) - bytesLen(b))
    ELSE Sign(byteAt(a, i) - byteAt(b, i))

bytesCompare(a, b) ==
    compareAt(a, b, firstDiff(a, b, Min2(Min2(bytesLen(a), bytesLen(b)),
                                         Max2(Len(a.head), Len(b.head)))))

\* b[:n] and b[n:]
bytesTake(b, n) ==
    IF n >= bytesLen(b) THEN mkBytes(b.head, b.pad)
    ELSE IF n <= Len(b.head) THEN mkBytes(SubSeq(b.head, 1, n), 0)
    ELSE mkBytes(b.head, n - Len(b.head))

bytesDrop(b, n) ==
    IF n >= bytesLen(b) THEN mkBytes(<<>>, 0)
    ELSE IF n <= Len(b.head) THEN mkBytes(SubSeq(b.head, n + 1, Len(b.head)), b.pad)
    ELSE mkBytes(<<>>, b.pad - (n - Len(b.head)))

\* a followed by b
bytesCat(a, b) ==
    IF b.head = <<>> THEN mkBytes(a.head, a.pad + b.pad)
    ELSE mkBytes(a.head \o Repeat(0, a.pad) \o b.head, b.pad)

\* copyBytes: a fresh slice of the same bytes
copyBytes(b) == mkBytes(b.head, b.pad)

MinKey == [head |-> <<77, 73, 78, 95, 75, 69, 89>>, pad |-> 0, ptr |-> "MinKey"]
MaxKey == [head |-> <<77, 65, 88, 95, 75, 69, 89>>, pad |-> 0, ptr |-> "MaxKey"]

isMinKey(rawKey) == rawKey.ptr = "MinKey"
\* isMaxKey that recognises no slice as MaxKey
isMaxKey_never(rawKey) == FALSE

isMaxKey(rawKey) == rawKey.ptr = "MaxKey"

\* len(key) of a key or value on a page
pageLen(k) == bytesLen(k.pre) + (IF k.addr >= 0 THEN 8 ELSE 0)

nilKey == [pre |-> mkBytes(<<>>, 0), addr |-> -1]

\* keyFactory.getKeyOverflow and valueFactory.getValueOverflow: the bytes
\* of the overflow region
getOverflow(fs, k) == fs[k.addr].data

\* bytes.Compare(key, rawKey) for a key that holds an overflow address and
\* a rawKey no longer than the prefix: the address bytes are never reached
\* "if d != 0 { return d }", else the next comparison
orElse(d, next) == IF d # 0 THEN d ELSE next

comparePageKey(key, rawKey) ==
    IF key.addr < 0 THEN bytesCompare(key.pre, rawKey)
    ELSE orElse(bytesCompare(bytesTake(key.pre, bytesLen(rawKey)), rawKey), 1)

\* CompareKey that does not look at the overflow region
CompareKey_prefixOnly(fs, key, rawKey) ==
    IF pageLen(key) < maxKeySize \/ bytesLen(rawKey) <= keyPrefixSize
    THEN comparePageKey(key, rawKey)
    ELSE bytesCompare(bytesTake(key.pre, keyPrefixSize), bytesTake(rawKey, keyPrefixSize))

CompareKey(fs, key, rawKey) ==
    IF pageLen(key) < maxKeySize \/ bytesLen(rawKey) <= keyPrefixSize
    THEN comparePageKey(key, rawKey)
    ELSE orElse(bytesCompare(bytesTake(key.pre, keyPrefixSize),
                             bytesTake(rawKey, keyPrefixSize)),
                bytesCompare(getOverflow(fs, key), bytesDrop(rawKey, keyPrefixSize)))

\* CreateKey: the key for the page and the storage
CreateKey(fs, rawKey) ==
    IF bytesLen(rawKey) < maxKeySize
    THEN [key |-> [pre |-> copyBytes(rawKey), addr |-> -1], fs |-> fs]
    ELSE LET a == AllocateSpace(fs, [kind |-> "overflow",
                                     data |-> bytesDrop(rawKey, keyPrefixSize)])
         IN  [key |-> [pre |-> bytesTake(rawKey, keyPrefixSize), addr |-> a.addr],
              fs |-> a.fs]

\* DestroyKey: the size of the raw key and the storage
\* DestroyKey that leaves the overflow region of the key allocated
DestroyKey_leaks(fs, key) ==
    IF pageLen(key) < maxKeySize
    THEN [size |-> pageLen(key), fs |-> fs]
    ELSE [size |-> keyPrefixSize + bytesLen(getOverflow(fs, key)), fs |-> fs]

DestroyKey(fs, key) ==
    IF pageLen(key) < maxKeySize
    THEN [size |-> pageLen(key), fs |-> fs]
    ELSE [size |-> keyPrefixSize + bytesLen(getOverflow(fs, key)),
          fs |-> FreeSpace(fs, key.addr)]

ReadKey(fs, key) ==
    IF pageLen(key) < maxKeySize THEN copyBytes(key.pre)
    ELSE bytesCat(bytesTake(key.pre, keyPrefixSize), getOverflow(fs, key))

GetRawKeySize(fs, key) ==
    IF pageLen(key) < maxKeySize THEN pageLen(key)
    ELSE keyPrefixSize + bytesLen(getOverflow(fs, key))

CreateValue(fs, rawValue) ==
    IF bytesLen(rawValue) < maxValueSize
    THEN [value |-> [pre |-> copyBytes(rawValue), addr |-> -1], fs |-> fs]
    ELSE LET a == AllocateSpace(fs, [kind |-> "overflow",
                                     data |-> bytesDrop(rawValue, maxValueSize - 8)])
         IN  [value |-> [pre |-> bytesTake(rawValue, maxValueSize - 8), addr |-> a.addr],
              fs |-> a.fs]

DestroyValue(fs, value) ==
    IF pageLen(value) < maxValueSize
    THEN [size |-> pageLen(value), fs |-> fs]
    ELSE [size |-> (maxValueSize - 8) + bytesLen(getOverflow(fs, value)),
          fs |-> FreeSpace(fs, value.addr)]

\* ReadValue that leaves the overflow region out
ReadValue_prefixOnly(fs, value) == copyBytes(value.pre)

ReadValue(fs, value) ==
    IF pageLen(value) < maxValueSize THEN copyBytes(value.pre)
    ELSE bytesCat(bytesTake(value.pre, maxValueSize - 8), getOverflow(fs, value))

GetValueSize(fs, value) ==
    IF pageLen(value) < maxValueSize THEN pageLen(value)
    ELSE (maxValueSize - 8) + bytesLen(getOverflow(fs, value))

(***************************************************************************)
(* leafController and nonLeafController.  Indices are those of the code,   *)
(* counted from 0.                                                         *)
(***************************************************************************)
CreateLeaf(fs) ==
    AllocateSpace(fs, [kind |-> "leaf", prev |-> 0, next |-> 0, recs |-> <<>>,
                       overrun |-> FALSE])

CreateNonLeaf(fs) ==
    AllocateSpace(fs, [kind |-> "nonleaf", children |-> <<>>, overrun |-> FALSE])

\* the binary search of LocateRecord and LocateChild over the keys of a page
RECURSIVE searchKeys(_, _, _, _, _)
searchKeys(fs, keys, i, j, key) ==
    IF i < j
    THEN IF CompareKey(fs, keys[(i + j) \div 2 + 1], key) < 0
         THEN searchKeys(fs, keys, (i + j) \div 2 + 1, j, key)
         ELSE searchKeys(fs, keys, i, (i + j) \div 2, key)
    ELSE i

\* what LocateRecord and LocateChild return after the search ended at i
\* with the comparison d
located(i, n, d) ==
    IF d = 0 THEN [i |-> i, ok |-> TRUE]
    ELSE [i |-> IF d < 0 /\ i = n - 1 THEN n ELSE i, ok |-> FALSE]

locateAt(fs, keys, i, n, key) == located(i, n, CompareKey(fs, keys[i + 1], key))

\* the search from index first on, and what it found
locateAfterSearch(fs, keys, first, n, key) ==
    locateAt(fs, keys, searchKeys(fs, keys, first, n - 1, key), n, key)

NumberOfRecords(fs, lc) == Len(fs[lc].recs)

leafGetKey(fs, lc, recordIndex) == fs[lc].recs[recordIndex + 1].Key

leafGetValue(fs, lc, recordIndex) == fs[lc].recs[recordIndex + 1].Value

recordSize(record) == recordHeaderSize + pageLen(record.Key) + pageLen(record.Value)

RECURSIVE recordsSize(_)
recordsSize(records) ==
    IF records = <<>> THEN 0 ELSE recordSize(Head(records)) + recordsSize(Tail(records))

leafGetLoadSize(fs, lc) == recordsSize(fs[lc].recs)

\* the page with its records replaced
leafWrite(fs, lc, recs) ==
    [fs EXCEPT ![lc].recs = recs,
               ![lc].overrun = @ \/ recordsSize(recs) > maxLeafFreeSpaceSize]

\* LocateRecord that searches for a sentinel as for any other key
LocateRecord_plain(fs, lc, key) ==
    locateAfterSearch(fs, [x \in 1..NumberOfRecords(fs, lc) |-> fs[lc].recs[x].Key],
                      0, NumberOfRecords(fs, lc), key)

LocateRecord(fs, lc, key) ==
    IF isMinKey(key) THEN [i |-> 0, ok |-> TRUE]
    ELSE IF isMaxKey(key) THEN [i |-> NumberOfRecords(fs, lc) - 1, ok |-> TRUE]
    ELSE locateAfterSearch(fs, [x \in 1..NumberOfRecords(fs, lc) |-> fs[lc].recs[x].Key],
                           0, NumberOfRecords(fs, lc), key)

InsertRecords(fs, lc, firstRecordIndex, records) ==
    LET recs == fs[lc].recs
    IN  leafWrite(fs, lc, SubSeq(recs, 1, firstRecordIndex) \o records
                          \o SubSeq(recs, firstRecordIndex + 1, Len(recs)))

\* RemoveRecords: the removed records and the storage
RemoveRecords(fs, lc, firstRecordIndex, numberOfRecords) ==
    LET recs == fs[lc].recs
    IN  [records |-> SubSeq(recs, firstRecordIndex + 1, firstRecordIndex + numberOfRecords),
         fs |-> leafWrite(fs, lc, SubSeq(recs, 1, firstRecordIndex)
                                  \o SubSeq(recs, firstRecordIndex + numberOfRecords + 1,
                                            Len(recs)))]

\* the loop of CountRecordsForSpliting from record i downwards
RECURSIVE splitRecordsLoop(_, _, _, _, _)
splitRecordsLoop(recs, i, loadSize1, loadSize2, recordCount) ==
    LET size == recordSize(recs[i + 1])
        l1 == loadSize1 - size
        l2 == loadSize2 + size
    IN  IF l1 < leafUnderloadThreshold THEN recordCount
        ELSE IF l1 <= l2 THEN recordCount + 1
        ELSE splitRecordsLoop(recs, i - 1, l1, l2, recordCount + 1)

\* CountRecordsForSpliting that moves the last record only
CountRecordsForSpliting_one(fs, lc) == 1

CountRecordsForSpliting(fs, lc) ==
    splitRecordsLoop(fs[lc].recs, NumberOfRecords(fs, lc) - 1, leafGetLoadSize(fs, lc), 0, 0)

\* the loop of CountRecordsForShiftingToLeft (step 1) and ToRight (step -1):
\* the two load sizes and the count when the loop is left
RECURSIVE shiftRecordsLoop(_, _, _, _, _, _)
shiftRecordsLoop(recs, i, step, loadSize1, loadSize2, recordCount) ==
    LET size == recordSize(recs[i + 1])
        l1 == loadSize1 - size
        l2 == loadSize2 + size
    IN  IF l1 < leafUnderloadThreshold \/ l2 > leafOverloadThreshold
        THEN [loadSize1 |-> l1, loadSize2 |-> l2, recordCount |-> recordCount]
        ELSE IF l1 <= l2
        THEN [loadSize1 |-> l1, loadSize2 |-> l2, recordCount |-> recordCount + 1]
        ELSE shiftRecordsLoop(recs, i + step, step, l1, l2, recordCount + 1)

shiftRecordsResult(r) ==
    IF r.loadSize1 > leafOverloadThreshold \/ r.loadSize2 < leafUnderloadThreshold
    THEN 0
    ELSE r.recordCount

CountRecordsForShiftingToLeft(fs, lc, leftSibling) ==
    shiftRecordsResult(shiftRecordsLoop(fs[lc].recs, 0, 1, leafGetLoadSize(fs, lc),
                                        leafGetLoadSize(fs, leftSibling), 0))

CountRecordsForShiftingToRight(fs, lc, rightSibling) ==
    shiftRecordsResult(shiftRecordsLoop(fs[lc].recs, NumberOfRecords(fs, lc) - 1, -1,
                                        leafGetLoadSize(fs, lc),
                                        leafGetLoadSize(fs, rightSibling), 0))

CountRecordsForUnshiftingFromLeft(fs, lc, leftSibling) ==
    CountRecordsForShiftingToRight(fs, leftSibling, lc)

CountRecordsForUnshiftingFromRight(fs, lc, rightSibling) ==
    CountRecordsForShiftingToLeft(fs, rightSibling, lc)

SetValue(fs, lc, recordIndex, value) ==
    leafWrite(fs, lc, [fs[lc].recs EXCEPT ![recordIndex + 1].Value = value])

\* The child count is the first four bytes of the page.  On a leaf page
\* these are the high half of the prev address, which is zero
NumberOfChildren(fs, nlc) ==
    IF fs[nlc].kind = "nonleaf" THEN Len(fs[nlc].children) ELSE 0

nonLeafGetKey(fs, nlc, childIndex) == fs[nlc].children[childIndex + 1].Key

GetChildAddr(fs, nlc, childIndex) == fs[nlc].children[childIndex + 1].Addr

childSize(child) == nonLeafChildHeaderSize + pageLen(child.Key)

RECURSIVE childrenSize(_)
childrenSize(children) ==
    IF children = <<>> THEN 0 ELSE childSize(Head(children)) + childrenSize(Tail(children))

\* with no children the load size is zero
nonLeafGetLoadSize(fs, nlc) ==
    IF NumberOfChildren(fs, nlc) = 0 THEN 0 ELSE childrenSize(fs[nlc].children)

nonLeafWrite(fs, nlc, children) ==
    [fs EXCEPT ![nlc].children = children,
               ![nlc].overrun = @ \/ childrenSize(children) > maxNonLeafFreeSpaceSize]

LocateChild(fs, nlc, key) ==
    IF isMinKey(key) THEN [i |-> 0, ok |-> TRUE]
    ELSE IF isMaxKey(key) THEN [i |-> NumberOfChildren(fs, nlc) - 1, ok |-> TRUE]
    ELSE locateAfterSearch(fs,
                           [x \in 1..NumberOfChildren(fs, nlc) |-> fs[nlc].children[x].Key],
                           1, NumberOfChildren(fs, nlc), key)

InsertChildren(fs, nlc, firstChildIndex, children) ==
    LET old == fs[nlc].children
    IN  nonLeafWrite(fs, nlc, SubSeq(old, 1, firstChildIndex) \o children
                              \o SubSeq(old, firstChildIndex + 1, Len(old)))

RemoveChildren(fs, nlc, firstChildIndex, numberOfChildren) ==
    LET old == fs[nlc].children
    IN  [children |-> SubSeq(old, firstChildIndex + 1, firstChildIndex + numberOfChildren),
         fs |-> nonLeafWrite(fs, nlc, SubSeq(old, 1, firstChildIndex)
                                      \o SubSeq(old, firstChildIndex + numberOfChildren + 1,
                                                Len(old)))]

SetKey(fs, nlc, childIndex, key) ==
    nonLeafWrite(fs, nlc, [fs[nlc].children EXCEPT ![childIndex + 1].Key = key])

\* the loop of CountChildrenForSpliting from child i downwards
RECURSIVE splitChildrenLoop(_, _, _, _, _, _)
splitChildrenLoop(children, i, loadSize1, loadSize2, lastChildSize, childCount) ==
    IF loadSize1 < nonLeafUnderloadThreshold THEN childCount
    ELSE IF loadSize1 <= loadSize2 THEN childCount + 1
    ELSE LET size == childSize(children[i + 1])
         IN  splitChildrenLoop(children, i - 1, loadSize1 - size,
                               loadSize2 + lastChildSize, size, childCount + 1)

CountChildrenForSpliting(fs, nlc) ==
    LET n == NumberOfChildren(fs, nlc)
        lastChildSize == childSize(fs[nlc].children[n])
    IN  splitChildrenLoop(fs[nlc].children, n - 2,
                          nonLeafGetLoadSize(fs, nlc) - lastChildSize,
                          nonLeafChildHeaderSize, lastChildSize, 0)

shiftChildrenResult(r) ==
    IF r.loadSize1 > nonLeafOverloadThreshold \/ r.loadSize2 < nonLeafUnderloadThreshold
    THEN 0
    ELSE r.childCount

\* the loop of CountChildrenForShiftingToLeft from child i upwards
RECURSIVE shiftChildrenLeftLoop(_, _, _, _, _)
shiftChildrenLeftLoop(children, i, loadSize1, loadSize2, childCount) ==
    IF loadSize1 < nonLeafUnderloadThreshold \/ loadSize2 > nonLeafOverloadThreshold
    THEN [loadSize1 |-> loadSize1, loadSize2 |-> loadSize2, childCount |-> childCount]
    ELSE IF loadSize1 <= loadSize2
    THEN [loadSize1 |-> loadSize1, loadSize2 |-> loadSize2, childCount |-> childCount + 1]
    ELSE LET size == childSize(children[i + 1])
         IN  shiftChildrenLeftLoop(children, i + 1, loadSize1 - size, loadSize2 + size,
                                   childCount + 1)

CountChildrenForShiftingToLeft(fs, nlc, leftSibling) ==
    shiftChildrenResult(
        shiftChildrenLeftLoop(fs[nlc].children, 1,
                              nonLeafGetLoadSize(fs, nlc) - childSize(fs[nlc].children[1]),
                              nonLeafGetLoadSize(fs, leftSibling) + nonLeafChildHeaderSize,
                              0))

\* the loop of CountChildrenForShiftingToRight from child i downwards
RECURSIVE shiftChildrenRightLoop(_, _, _, _, _, _)
shiftChildrenRightLoop(children, i, loadSize1, loadSize2, lastChildSize, childCount) ==
    IF loadSize1 < nonLeafUnderloadThreshold \/ loadSize2 > nonLeafOverloadThreshold
    THEN [loadSize1 |-> loadSize1, loadSize2 |-> loadSize2, childCount |-> childCount]
    ELSE IF loadSize1 <= loadSize2
    THEN [loadSize1 |-> loadSize1, loadSize2 |-> loadSize2, childCount |-> childCount + 1]
    ELSE LET size == childSize(children[i + 1])
         IN  shiftChildrenRightLoop(children, i - 1, loadSize1 - size,
                                    loadSize2 + lastChildSize, size, childCount + 1)

CountChildrenForShiftingToRight(fs, nlc, rightSibling) ==
    LET n == NumberOfChildren(fs, nlc)
        lastChildSize == childSize(fs[nlc].children[n])
    IN  shiftChildrenResult(
            shiftChildrenRightLoop(fs[nlc].children, n - 2,
                                   nonLeafGetLoadSize(fs, nlc) - lastChildSize,
                                   nonLeafGetLoadSize(fs, rightSibling) + nonLeafChildHeaderSize,
                                   lastChildSize, 0))

CountChildrenForUnshiftingFromLeft(fs, nlc, leftSibling) ==
    CountChildrenForShiftingToRight(fs, leftSibling, nlc)

CountChildrenForUnshiftingFromRight(fs, nlc, rightSibling) ==
    CountChildrenForShiftingToLeft(fs, rightSibling, nlc)

\* Split that puts the child of the new sibling before the child of the leaf
leafSplit_inFront(fs, lc, numberOfRecords, parent, index, newSibling) ==
    LET r == RemoveRecords(fs, lc, NumberOfRecords(fs, lc) - numberOfRecords,
                           numberOfRecords)
        fs1 == InsertRecords(r.fs, newSibling, 0, r.records)
    IN  InsertChildren(fs1, parent, index,
                       <<[Key |-> r.records[1].Key, Addr |-> newSibling]>>)

leafSplit(fs, lc, numberOfRecords, parent, index, newSibling) ==
    LET r == RemoveRecords(fs, lc, NumberOfRecords(fs, lc) - numberOfRecords,
                           numberOfRecords)
        fs1 == InsertRecords(r.fs, newSibling, 0, r.records)
    IN  InsertChildren(fs1, parent, index + 1,
                       <<[Key |-> r.records[1].Key, Addr |-> newSibling]>>)

\* MergeFromRight that takes the child of the leaf itself out of the parent
leafMergeFromRight_dropsOwn(fs, lc, parent, index, rightSibling) ==
    LET fs1 == RemoveChildren(fs, parent, index, 1).fs
        r == RemoveRecords(fs1, rightSibling, 0, NumberOfRecords(fs1, rightSibling))
    IN  InsertRecords(r.fs, lc, NumberOfRecords(r.fs, lc), r.records)

leafMergeFromRight(fs, lc, parent, index, rightSibling) ==
    LET fs1 == RemoveChildren(fs, parent, index + 1, 1).fs
        r == RemoveRecords(fs1, rightSibling, 0, NumberOfRecords(fs1, rightSibling))
    IN  InsertRecords(r.fs, lc, NumberOfRecords(r.fs, lc), r.records)

leafMergeToLeft(fs, lc, parent, index, leftSibling) ==
    leafMergeFromRight(fs, leftSibling, parent, index - 1, lc)

leafShiftToLeft(fs, lc, numberOfRecords, parent, index, leftSibling) ==
    LET r == RemoveRecords(fs, lc, 0, numberOfRecords)
        fs1 == SetKey(r.fs, parent, index, leafGetKey(r.fs, lc, 0))
    IN  InsertRecords(fs1, leftSibling, NumberOfRecords(fs1, leftSibling), r.records)

leafShiftToRight(fs, lc, numberOfRecords, parent, index, rightSibling) ==
    LET r == RemoveRecords(fs, lc, NumberOfRecords(fs, lc) - numberOfRecords,
                           numberOfRecords)
        fs1 == SetKey(r.fs, parent, index + 1, r.records[1].Key)
    IN  InsertRecords(fs1, rightSibling, 0, r.records)

leafUnshiftFromLeft(fs, lc, numberOfRecords, parent, index, leftSibling) ==
    leafShiftToRight(fs, leftSibling, numberOfRecords, parent, index - 1, lc)

leafUnshiftFromRight(fs, lc, numberOfRecords, parent, index, rightSibling) ==
    leafShiftToLeft(fs, rightSibling, numberOfRecords, parent, index + 1, lc)

nonLeafSplit(fs, nlc, numberOfChildren, parent, index, newSibling) ==
    LET r == RemoveChildren(fs, nlc, NumberOfChildren(fs, nlc) - numberOfChildren,
                            numberOfChildren)
        key == r.children[1].Key
        children == [r.children EXCEPT ![1].Key = nilKey]
        fs1 == InsertChildren(r.fs, newSibling, 0, children)
    IN  InsertChildren(fs1, parent, index + 1, <<[Key |-> key, Addr |-> newSibling]>>)

nonLeafMergeFromRight(fs, nlc, parent, index, rightSibling) ==
    LET p == RemoveChildren(fs, parent, index + 1, 1)
        key == p.children[1].Key
        r == RemoveChildren(p.fs, rightSibling, 0, NumberOfChildren(p.fs, rightSibling))
        children == [r.children EXCEPT ![1].Key = key]
    IN  InsertChildren(r.fs, nlc, NumberOfChildren(r.fs, nlc), children)

nonLeafMergeToLeft(fs, nlc, parent, index, leftSibling) ==
    nonLeafMergeFromRight(fs, leftSibling, parent, index - 1, nlc)

nonLeafShiftToLeft(fs, nlc, numberOfChildren, parent, index, leftSibling) ==
    LET r == RemoveChildren(fs, nlc, 0, numberOfChildren)
        children == [r.children EXCEPT ![1].Key = nonLeafGetKey(r.fs, parent, index)]
        fs1 == SetKey(r.fs, parent, index, nonLeafGetKey(r.fs, nlc, 0))
        fs2 == SetKey(fs1, nlc, 0, nilKey)
    IN  InsertChildren(fs2, leftSibling, NumberOfChildren(fs2, leftSibling), children)

nonLeafShiftToRight(fs, nlc, numberOfChildren, parent, index, rightSibling) ==
    LET r == RemoveChildren(fs, nlc, NumberOfChildren(fs, nlc) - numberOfChildren,
                            numberOfChildren)
        fs1 == SetKey(r.fs, rightSibling, 0, nonLeafGetKey(r.fs, parent, index + 1))
        fs2 == SetKey(fs1, parent, index + 1, r.children[1].Key)
        children == [r.children EXCEPT ![1].Key = nilKey]
    IN  InsertChildren(fs2, rightSibling, 0, children)

nonLeafUnshiftFromLeft(fs, nlc, numberOfChildren, parent, index, leftSibling) ==
    nonLeafShiftToRight(fs, leftSibling, numberOfChildren, parent, index - 1, nlc)

nonLeafUnshiftFromRight(fs, nlc, numberOfChildren, parent, index, rightSibling) ==
    nonLeafShiftToLeft(fs, rightSibling, numberOfChildren, parent, index + 1, nlc)

(***************************************************************************)
(* leafList.  ll is the record [tailAddr, headAddr].                       *)
(***************************************************************************)
leafListInit(fs, leafAddr) ==
    [ll |-> [tailAddr |-> leafAddr, headAddr |-> leafAddr],
     fs |-> [fs EXCEPT ![leafAddr].prev = leafAddr, ![leafAddr].next = leafAddr]]

\* InsertLeafAfter that never moves the tail
InsertLeafAfter_keepTail(ll, fs, leafAddr, leafPrevAddr) ==
    LET leafNextAddr == fs[leafPrevAddr].next
        fs1 == [fs EXCEPT ![leafAddr].prev = leafPrevAddr]
        fs2 == [fs1 EXCEPT ![leafPrevAddr].next = leafAddr]
        fs3 == [fs2 EXCEPT ![leafAddr].next = leafNextAddr]
        fs4 == [fs3 EXCEPT ![leafNextAddr].prev = leafAddr]
    IN  [ll |-> ll, fs |-> fs4]

InsertLeafAfter(ll, fs, leafAddr, leafPrevAddr) ==
    LET leafNextAddr == fs[leafPrevAddr].next
        fs1 == [fs EXCEPT ![leafAddr].prev = leafPrevAddr]
        fs2 == [fs1 EXCEPT ![leafPrevAddr].next = leafAddr]
        fs3 == [fs2 EXCEPT ![leafAddr].next = leafNextAddr]
        fs4 == [fs3 EXCEPT ![leafNextAddr].prev = leafAddr]
    IN  [ll |-> IF leafPrevAddr = ll.tailAddr THEN [ll EXCEPT !.tailAddr = leafAddr] ELSE ll,
         fs |-> fs4]

RemoveLeaf(ll, fs, leafAddr) ==
    LET leafPrevAddr == fs[leafAddr].prev
        leafNextAddr == fs[leafAddr].next
        fs1 == [fs EXCEPT ![leafPrevAddr].next = leafNextAddr]
        fs2 == [fs1 EXCEPT ![leafNextAddr].prev = leafPrevAddr]
    IN  [ll |-> IF leafAddr = ll.headAddr THEN [ll EXCEPT !.headAddr = leafNextAddr]
                ELSE IF leafAddr = ll.tailAddr THEN [ll EXCEPT !.tailAddr = leafPrevAddr]
                ELSE ll,
         fs |-> fs2]

(***************************************************************************)
(* BPTree.  X is the record [bpt |-> struct, fs |-> storage]; the          *)
(* operations that fix the record path work on [bpt, fs, path].            *)
(***************************************************************************)
bptInit ==
    [rootAddr |-> -1, height |-> 0, leafList |-> [tailAddr |-> 0, headAddr |-> 0],
     leafCount |-> 0, nonLeafCount |-> 0, recordCount |-> 0, payloadSize |-> 0]

recordPathComponent(nodeAddr, index) ==
    [NodeAddr |-> nodeAddr, RecordOrNonLeafChildIndex |-> index]

createLeaf(X) ==
    LET a == CreateLeaf(X.fs)
    IN  [addr |-> a.addr,
         X |-> [X EXCEPT !.fs = a.fs, !.bpt.leafCount = @ + 1]]

\* destroyLeaf that leaves leafCount as it was
destroyLeaf_keepsCount(X, leafAddr) == [X EXCEPT !.fs = FreeSpace(X.fs, leafAddr)]

destroyLeaf(X, leafAddr) ==
    [X EXCEPT !.fs = FreeSpace(X.fs, leafAddr), !.bpt.leafCount = @ - 1]

createNonLeaf(X) ==
    LET a == CreateNonLeaf(X.fs)
    IN  [addr |-> a.addr,
         X |-> [X EXCEPT !.fs = a.fs, !.bpt.nonLeafCount = @ + 1]]

destroyNonLeaf(X, nonLeafAddr) ==
    [X EXCEPT !.fs = FreeSpace(X.fs, nonLeafAddr), !.bpt.nonLeafCount = @ - 1]

\* BPTree.Init followed by BPTree.Create
bptCreate(fs) ==
    LET c == createLeaf([bpt |-> bptInit, fs |-> fs])
        l == leafListInit(c.X.fs, c.addr)
    IN  [bpt |-> [c.X.bpt EXCEPT !.rootAddr = c.addr, !.height = 1, !.leafList = l.ll],
         fs |-> l.fs]

bptDestroy(X) ==
    [bpt |-> bptInit, fs |-> destroyLeaf(X, X.bpt.rootAddr).fs]

RECURSIVE findRecordLoop(_, _, _, _)
RECURSIVE findRecordBelow(_, _, _, _, _)
\* the end of the record path: the record LocateRecord found in the leaf
foundRecord(path, leafAddr, r) ==
    [path |-> Append(path, recordPathComponent(leafAddr, r.i)), ok |-> r.ok]

\* the child to go down to: the one LocateChild found, else the one before
foundChild(r) == IF r.ok THEN r.i ELSE r.i - 1

findRecordLoop(X, key, path, nodeAddr) ==
    IF Len(path) + 1 = X.bpt.height
    THEN foundRecord(path, nodeAddr, LocateRecord(X.fs, nodeAddr, key))
    ELSE findRecordBelow(X, key, path, nodeAddr,
                         foundChild(LocateChild(X.fs, nodeAddr, key)))

findRecordBelow(X, key, path, nodeAddr, i) ==
    findRecordLoop(X, key, Append(path, recordPathComponent(nodeAddr, i)),
                   GetChildAddr(X.fs, nodeAddr, i))

findRecord(X, key) ==
    IF X.bpt.recordCount = 0
    THEN [path |-> <<recordPathComponent(X.bpt.rootAddr, 0)>>, ok |-> FALSE]
    ELSE findRecordLoop(X, key, <<>>, X.bpt.rootAddr)

\* locateRecord: the leaf address and the record index at the end of the path
locateRecord(path) ==
    [leafAddr |-> path[Len(path)].NodeAddr,
     recordIndex |-> path[Len(path)].RecordOrNonLeafChildIndex]

increaseHeight(X) ==
    LET c == createNonLeaf(X)
    IN  [bpt |-> [c.X.bpt EXCEPT !.rootAddr = c.addr, !.height = @ + 1],
         fs |-> InsertChildren(c.X.fs, c.addr, 0,
                               <<[Key |-> nilKey, Addr |-> X.bpt.rootAddr]>>)]

decreaseHeight(X) ==
    LET rootAddr == GetChildAddr(X.fs, X.bpt.rootAddr, 0)
        X1 == destroyNonLeaf(X, X.bpt.rootAddr)
    IN  [X1 EXCEPT !.bpt.rootAddr = rootAddr, !.bpt.height = @ - 1]

\* "fix record path": component i (from 0) of the path set to (nodeAddr,
\* index) and component i - 1 pointed at child parentIndex
fixRecordPath(path, i, nodeAddr, index, parentIndex) ==
    [path EXCEPT ![i + 1] = recordPathComponent(nodeAddr, index),
                 ![i].RecordOrNonLeafChildIndex = parentIndex]

\* increaseHeight with the record path fixed: the new root comes first
increaseHeightOnPath(XP) ==
    LET X == increaseHeight([bpt |-> XP.bpt, fs |-> XP.fs])
    IN  [bpt |-> X.bpt, fs |-> X.fs,
         path |-> <<recordPathComponent(X.bpt.rootAddr, 0)>> \o XP.path]

\* a tree [bpt, fs] with a record path
withPath(X, path) == [bpt |-> X.bpt, fs |-> X.fs, path |-> path]

\* the split of the non-leaf at component i into itself and the new non-leaf
\* c.addr, which gets the last numberOfChildren children
splitNonLeaf(XP, i, numberOfChildren, c) ==
    LET nonLeafAddr == XP.path[i + 1].NodeAddr
        nonLeafChildIndex == XP.path[i + 1].RecordOrNonLeafChildIndex
        nonLeafIndex == XP.path[i].RecordOrNonLeafChildIndex
        m == NumberOfChildren(XP.fs, nonLeafAddr) - numberOfChildren
    IN  [bpt |-> c.X.bpt,
         fs |-> nonLeafSplit(c.X.fs, nonLeafAddr, numberOfChildren,
                             XP.path[i].NodeAddr, nonLeafIndex, c.addr),
         path |-> IF nonLeafChildIndex >= m
                  THEN fixRecordPath(XP.path, i, c.addr, nonLeafChildIndex - m,
                                     nonLeafIndex + 1)
                  ELSE XP.path]

\* the leaf list with the new leaf c.addr behind leafAddr, in a tree
linkedLeaf(c, l) == [bpt |-> [c.X.bpt EXCEPT !.leafList = l.ll], fs |-> l.fs]

\* the split of the leaf at the end of the path into itself and the new leaf
\* c.addr, which gets the last numberOfRecords records
splitLeaf(XP, numberOfRecords, c) ==
    LET i == Len(XP.path) - 1
        leafAddr == XP.path[i + 1].NodeAddr
        recordIndex == XP.path[i + 1].RecordOrNonLeafChildIndex
        leafIndex == XP.path[i].RecordOrNonLeafChildIndex
        m == NumberOfRecords(XP.fs, leafAddr) - numberOfRecords
    IN  withPath(linkedLeaf(c, InsertLeafAfter(
                                   c.X.bpt.leafList,
                                   leafSplit(c.X.fs, leafAddr, numberOfRecords,
                                             XP.path[i].NodeAddr, leafIndex, c.addr),
                                   c.addr, leafAddr)),
                 IF recordIndex >= m
                 THEN fixRecordPath(XP.path, i, c.addr, recordIndex - m, leafIndex + 1)
                 ELSE XP.path)

\* the tree with the leaf taken off the leaf list l and destroyed
unlinkedLeaf(XP, l, fs, leafAddr) ==
    destroyLeaf([bpt |-> [XP.bpt EXCEPT !.leafList = l.ll], fs |-> fs], leafAddr)

RECURSIVE ensureNotOverloadNonLeaf(_, _)
RECURSIVE ensureNotUnderloadNonLeaf(_, _)
RECURSIVE relieveNonLeaf(_, _)

\* The non-leaf at component i0 of the path.  When it is the root the tree
\* grows first, and the non-leaf is at component 1 of the longer path
ensureNotOverloadNonLeaf(XP0, i0) ==
    IF nonLeafGetLoadSize(XP0.fs, XP0.path[i0 + 1].NodeAddr) <= nonLeafOverloadThreshold
    THEN XP0
    ELSE relieveNonLeaf(IF i0 = 0 THEN increaseHeightOnPath(XP0) ELSE XP0,
                        IF i0 = 0 THEN 1 ELSE i0)

\* ensureNotOverloadNonLeaf on an overloaded non-leaf with a parent: shift to
\* the right sibling, else to the left sibling, else split
relieveNonLeaf(XP, i) ==
    LET fs == XP.fs
        nonLeafAddr == XP.path[i + 1].NodeAddr
        nonLeafChildIndex == XP.path[i + 1].RecordOrNonLeafChildIndex
        nonLeafParentAddr == XP.path[i].NodeAddr
        nonLeafIndex == XP.path[i].RecordOrNonLeafChildIndex
        hasR == nonLeafIndex < NumberOfChildren(fs, nonLeafParentAddr) - 1
        nonLeafRSiblingAddr == GetChildAddr(fs, nonLeafParentAddr, nonLeafIndex + 1)
        nR == IF hasR
              THEN CountChildrenForShiftingToRight(fs, nonLeafAddr, nonLeafRSiblingAddr)
              ELSE 0
        hasL == nonLeafIndex >= 1
        nonLeafLSiblingAddr == GetChildAddr(fs, nonLeafParentAddr, nonLeafIndex - 1)
        nL == IF hasL
              THEN CountChildrenForShiftingToLeft(fs, nonLeafAddr, nonLeafLSiblingAddr)
              ELSE 0
        n == NumberOfChildren(fs, nonLeafAddr)
        shiftedR ==
            [XP EXCEPT
                !.fs = nonLeafShiftToRight(fs, nonLeafAddr, nR, nonLeafParentAddr,
                                           nonLeafIndex, nonLeafRSiblingAddr),
                !.path = IF nonLeafChildIndex >= n - nR
                         THEN fixRecordPath(@, i, nonLeafRSiblingAddr,
                                            nonLeafChildIndex - (n - nR), nonLeafIndex + 1)
                         ELSE @]
        shiftedL ==
            [XP EXCEPT
                !.fs = nonLeafShiftToLeft(fs, nonLeafAddr, nL, nonLeafParentAddr,
                                          nonLeafIndex, nonLeafLSiblingAddr),
                !.path = IF nonLeafChildIndex < nL
                         THEN fixRecordPath(@, i, nonLeafLSiblingAddr,
                                            NumberOfChildren(fs, nonLeafLSiblingAddr)
                                                + nonLeafChildIndex,
                                            nonLeafIndex - 1)
                         ELSE [@ EXCEPT ![i + 1].RecordOrNonLeafChildIndex =
                                            nonLeafChildIndex - nL]]
        split == splitNonLeaf(XP, i, CountChildrenForSpliting(fs, nonLeafAddr),
                              createNonLeaf([bpt |-> XP.bpt, fs |-> fs]))
    IN  ensureNotOverloadNonLeaf(
            IF nR >= 1 \/ nL >= 1
            THEN ensureNotUnderloadNonLeaf(IF nR >= 1 THEN shiftedR ELSE shiftedL, i - 1)
            ELSE split,
            i - 1)

\* ensureNotUnderloadNonLeaf on an underloaded non-leaf with a parent, up to
\* the call on the parent: borrow from the right sibling, else from the left
\* sibling, else merge with the right sibling, else into the left sibling
nonLeafRefilled(XP, i) ==
    LET fs == XP.fs
        nonLeafAddr == XP.path[i + 1].NodeAddr
        nonLeafChildIndex == XP.path[i + 1].RecordOrNonLeafChildIndex
        nonLeafParentAddr == XP.path[i].NodeAddr
        nonLeafIndex == XP.path[i].RecordOrNonLeafChildIndex
        hasR == nonLeafIndex < NumberOfChildren(fs, nonLeafParentAddr) - 1
        nonLeafRSiblingAddr == GetChildAddr(fs, nonLeafParentAddr, nonLeafIndex + 1)
        nR == IF hasR
              THEN CountChildrenForUnshiftingFromRight(fs, nonLeafAddr, nonLeafRSiblingAddr)
              ELSE 0
        hasL == nonLeafIndex >= 1
        nonLeafLSiblingAddr == GetChildAddr(fs, nonLeafParentAddr, nonLeafIndex - 1)
        nL == IF hasL
              THEN CountChildrenForUnshiftingFromLeft(fs, nonLeafAddr, nonLeafLSiblingAddr)
              ELSE 0
        shiftedR ==
            [XP EXCEPT !.fs = nonLeafUnshiftFromRight(fs, nonLeafAddr, nR,
                                  nonLeafParentAddr, nonLeafIndex, nonLeafRSiblingAddr)]
        shiftedL ==
            [XP EXCEPT !.fs = nonLeafUnshiftFromLeft(fs, nonLeafAddr, nL,
                                  nonLeafParentAddr, nonLeafIndex, nonLeafLSiblingAddr),
                       !.path[i + 1].RecordOrNonLeafChildIndex = nL + nonLeafChildIndex]
        mergedR ==
            withPath(destroyNonLeaf(
                         [bpt |-> XP.bpt,
                          fs |-> nonLeafMergeFromRight(fs, nonLeafAddr, nonLeafParentAddr,
                                                       nonLeafIndex, nonLeafRSiblingAddr)],
                         nonLeafRSiblingAddr),
                     XP.path)
        mergedL ==
            withPath(destroyNonLeaf(
                         [bpt |-> XP.bpt,
                          fs |-> nonLeafMergeToLeft(fs, nonLeafAddr, nonLeafParentAddr,
                                                    nonLeafIndex, nonLeafLSiblingAddr)],
                         nonLeafAddr),
                     fixRecordPath(XP.path, i, nonLeafLSiblingAddr,
                                   NumberOfChildren(fs, nonLeafLSiblingAddr)
                                       + nonLeafChildIndex,
                                   nonLeafIndex - 1))
    IN  [shifted |-> nR >= 1 \/ nL >= 1,
         XP |-> IF nR >= 1 THEN shiftedR
                ELSE IF nL >= 1 THEN shiftedL
                ELSE IF hasR THEN mergedR
                ELSE mergedL]

\* the calls on the parent after the refill r of the node at component i of
\* the path: the parent, which lost a key or a child, comes next
refillFollowed(r, i) ==
    IF r.shifted
    THEN ensureNotOverloadNonLeaf(ensureNotUnderloadNonLeaf(r.XP, i - 1), i - 1)
    ELSE ensureNotUnderloadNonLeaf(r.XP, i - 1)

ensureNotUnderloadNonLeaf(XP, i) ==
    LET fs == XP.fs
        nonLeafAddr == XP.path[i + 1].NodeAddr
    IN  IF i = 0
        THEN IF NumberOfChildren(fs, nonLeafAddr) = 1
             THEN withPath(decreaseHeight([bpt |-> XP.bpt, fs |-> fs]), Tail(XP.path))
             ELSE XP
        ELSE IF nonLeafGetLoadSize(fs, nonLeafAddr) >= nonLeafUnderloadThreshold THEN XP
        ELSE refillFollowed(nonLeafRefilled(XP, i), i)

\* ensureNotOverloadLeaf on an overloaded leaf with a parent, up to the
\* call on the parent: shift to the right sibling, else to the left
\* sibling, else split
leafRelieved(XP) ==
    LET i == Len(XP.path) - 1
        fs == XP.fs
        leafAddr == XP.path[i + 1].NodeAddr
        recordIndex == XP.path[i + 1].RecordOrNonLeafChildIndex
        leafParentAddr == XP.path[i].NodeAddr
        leafIndex == XP.path[i].RecordOrNonLeafChildIndex
        hasR == leafIndex < NumberOfChildren(fs, leafParentAddr) - 1
        leafRSiblingAddr == GetChildAddr(fs, leafParentAddr, leafIndex + 1)
        nR == IF hasR THEN CountRecordsForShiftingToRight(fs, leafAddr, leafRSiblingAddr)
              ELSE 0
        hasL == leafIndex >= 1
        leafLSiblingAddr == GetChildAddr(fs, leafParentAddr, leafIndex - 1)
        nL == IF hasL THEN CountRecordsForShiftingToLeft(fs, leafAddr, leafLSiblingAddr)
              ELSE 0
        n == NumberOfRecords(fs, leafAddr)
        shiftedR ==
            [XP EXCEPT
                !.fs = leafShiftToRight(fs, leafAddr, nR, leafParentAddr,
                                        leafIndex, leafRSiblingAddr),
                !.path = IF recordIndex >= n - nR
                         THEN fixRecordPath(@, i, leafRSiblingAddr,
                                            recordIndex - (n - nR), leafIndex + 1)
                         ELSE @]
        shiftedL ==
            [XP EXCEPT
                !.fs = leafShiftToLeft(fs, leafAddr, nL, leafParentAddr,
                                       leafIndex, leafLSiblingAddr),
                !.path = IF recordIndex < nL
                         THEN fixRecordPath(@, i, leafLSiblingAddr,
                                            NumberOfRecords(fs, leafLSiblingAddr)
                                                + recordIndex,
                                            leafIndex - 1)
                         ELSE [@ EXCEPT ![i + 1].RecordOrNonLeafChildIndex =
                                            recordIndex - nL]]
        split == splitLeaf(XP, CountRecordsForSpliting(fs, leafAddr),
                           createLeaf([bpt |-> XP.bpt, fs |-> fs]))
    IN  IF nR >= 1 \/ nL >= 1
        THEN ensureNotUnderloadNonLeaf(IF nR >= 1 THEN shiftedR ELSE shiftedL, i - 1)
        ELSE split

\* the parent of the leaf, which got a key or a child, comes next
relieveLeaf(XP) == ensureNotOverloadNonLeaf(leafRelieved(XP), Len(XP.path) - 2)

\* the leaf at the end of the path.  When it is the root the tree grows first
ensureNotOverloadLeaf(XP0) ==
    IF leafGetLoadSize(XP0.fs, XP0.path[Len(XP0.path)].NodeAddr) <= leafOverloadThreshold
    THEN XP0
    ELSE relieveLeaf(IF Len(XP0.path) = 1 THEN increaseHeightOnPath(XP0) ELSE XP0)

\* ensureNotUnderloadLeaf on an underloaded leaf with a parent, up to the
\* call on the parent: borrow from the right sibling, else from the left
\* sibling, else merge with the right sibling, else into the left sibling
leafRefilled(XP) ==
    LET i == Len(XP.path) - 1
        fs == XP.fs
        leafAddr == XP.path[i + 1].NodeAddr
        recordIndex == XP.path[i + 1].RecordOrNonLeafChildIndex
        leafParentAddr == XP.path[i].NodeAddr
        leafIndex == XP.path[i].RecordOrNonLeafChildIndex
        hasR == leafIndex < NumberOfChildren(fs, leafParentAddr) - 1
        leafRSiblingAddr == GetChildAddr(fs, leafParentAddr, leafIndex + 1)
        nR == IF hasR THEN CountRecordsForUnshiftingFromRight(fs, leafAddr, leafRSiblingAddr)
              ELSE 0
        hasL == leafIndex >= 1
        leafLSiblingAddr == GetChildAddr(fs, leafParentAddr, leafIndex - 1)
        nL == IF hasL THEN CountRecordsForUnshiftingFromLeft(fs, leafAddr, leafLSiblingAddr)
              ELSE 0
        shiftedR ==
            [XP EXCEPT !.fs = leafUnshiftFromRight(fs, leafAddr, nR, leafParentAddr,
                                                   leafIndex, leafRSiblingAddr)]
        shiftedL ==
            [XP EXCEPT !.fs = leafUnshiftFromLeft(fs, leafAddr, nL, leafParentAddr,
                                                  leafIndex, leafLSiblingAddr),
                       !.path[i + 1].RecordOrNonLeafChildIndex = nL + recordIndex]
        mergedR ==
            withPath(unlinkedLeaf(XP, RemoveLeaf(XP.bpt.leafList, fs, leafRSiblingAddr),
                                  leafMergeFromRight(
                                      RemoveLeaf(XP.bpt.leafList, fs, leafRSiblingAddr).fs,
                                      leafAddr, leafParentAddr, leafIndex, leafRSiblingAddr),
                                  leafRSiblingAddr),
                     XP.path)
        mergedL ==
            withPath(unlinkedLeaf(XP, RemoveLeaf(XP.bpt.leafList, fs, leafAddr),
                                  leafMergeToLeft(
                                      RemoveLeaf(XP.bpt.leafList, fs, leafAddr).fs,
                                      leafAddr, leafParentAddr, leafIndex, leafLSiblingAddr),
                                  leafAddr),
                     fixRecordPath(XP.path, i, leafLSiblingAddr,
                                   NumberOfRecords(fs, leafLSiblingAddr) + recordIndex,
                                   leafIndex - 1))
    IN  [shifted |-> nR >= 1 \/ nL >= 1,
         XP |-> IF nR >= 1 THEN shiftedR
                ELSE IF nL >= 1 THEN shiftedL
                ELSE IF hasR THEN mergedR
                ELSE mergedL]

ensureNotUnderloadLeaf(XP) ==
    LET i == Len(XP.path) - 1
        leafAddr == XP.path[i + 1].NodeAddr
    IN  IF i = 0 THEN XP
        ELSE IF leafGetLoadSize(XP.fs, leafAddr) >= leafUnderloadThreshold THEN XP
        ELSE refillFollowed(leafRefilled(XP), i)

\* the SetKey of syncKey at component i of the path: the key of the child
\* becomes the first key of the leaf
syncKeySet(XP, i) ==
    [XP EXCEPT !.fs = SetKey(@, XP.path[i + 1].NodeAddr,
                             XP.path[i + 1].RecordOrNonLeafChildIndex,
                             leafGetKey(@, XP.path[Len(XP.path)].NodeAddr, 0))]

\* the loop of syncKey from component i of the path upwards.  The two
\* calls after SetKey get the same i, whatever the first does to the path
RECURSIVE syncKeyLoop(_, _)
syncKeyLoop(XP, i) ==
    IF i < 0 THEN XP
    ELSE IF XP.path[i + 1].RecordOrNonLeafChildIndex >= 1
    THEN ensureNotOverloadNonLeaf(ensureNotUnderloadNonLeaf(syncKeySet(XP, i), i), i)
    ELSE syncKeyLoop(XP, i - 1)

\* syncKey that leaves the keys of the ancestors as they are
syncKey_never(XP) == XP

syncKey(XP) ==
    LET n == Len(XP.path)
    IN  IF n < 2 \/ XP.path[n].RecordOrNonLeafChildIndex >= 1 THEN XP
        ELSE syncKeyLoop(XP, n - 2)

\* the tree [bpt, fs] of XP with d more records
counted(XP, d) == [bpt |-> [XP.bpt EXCEPT !.recordCount = @ + d], fs |-> XP.fs]

\* the operations below return the tree [bpt, fs], with the value they
\* return in the code, if any, in a further field
\* insertRecord up to the count of records: the tree with the record path
\* as the rebalancing leaves it
insertedAt(X, recordPath, record1) ==
    LET loc == locateRecord(recordPath)
    IN  [bpt |-> X.bpt,
         fs |-> InsertRecords(X.fs, loc.leafAddr, loc.recordIndex, <<record1>>),
         path |-> recordPath]

insertRebalanced(X, recordPath, record1) ==
    ensureNotOverloadLeaf(syncKey(insertedAt(X, recordPath, record1)))

insertRecord(X, recordPath, record1) ==
    counted(insertRebalanced(X, recordPath, record1), 1)

withRecord(X, record) == [bpt |-> X.bpt, fs |-> X.fs, record |-> record]

\* removeRecord up to the count of records: the tree with the record path
\* as the rebalancing leaves it
removedAt(X, recordPath) ==
    LET loc == locateRecord(recordPath)
    IN  [bpt |-> X.bpt,
         fs |-> RemoveRecords(X.fs, loc.leafAddr, loc.recordIndex, 1).fs,
         path |-> recordPath]

removeRebalanced(X, recordPath) ==
    ensureNotUnderloadLeaf(syncKey(removedAt(X, recordPath)))

removeRecord(X, recordPath) ==
    LET loc == locateRecord(recordPath)
    IN  withRecord(counted(removeRebalanced(X, recordPath), -1),
                   RemoveRecords(X.fs, loc.leafAddr, loc.recordIndex, 1).records[1])

noBytes == mkBytes(<<>>, 0)

bptGetValue(X, recordPath, do) ==
    LET loc == locateRecord(recordPath)
    IN  IF do THEN ReadValue(X.fs, leafGetValue(X.fs, loc.leafAddr, loc.recordIndex))
        ELSE noBytes

createRecord(X, key, value) ==
    LET k == CreateKey(X.fs, key)
        v == CreateValue(k.fs, value)
    IN  [bpt |-> [X.bpt EXCEPT !.payloadSize = @ + bytesLen(key) + bytesLen(value)],
         fs |-> v.fs,
         record |-> [Key |-> k.key, Value |-> v.value]]

destroyRecord(X, record, returnValue) ==
    LET k == DestroyKey(X.fs, record.Key)
        value == IF returnValue THEN ReadValue(k.fs, record.Value) ELSE noBytes
        v == DestroyValue(k.fs, record.Value)
    IN  [bpt |-> [X.bpt EXCEPT !.payloadSize = @ - (k.size + v.size)],
         fs |-> v.fs,
         value |-> value]

\* the tree [bpt, fs] of XP with d more bytes of payload, and the old value
replaced(XP, d, oldValue) ==
    [bpt |-> [XP.bpt EXCEPT !.payloadSize = @ + d], fs |-> XP.fs, value |-> oldValue]

\* the record at loc with the value c.value, in the file c.fs
valueSet(X, recordPath, loc, c) ==
    [bpt |-> X.bpt, fs |-> SetValue(c.fs, loc.leafAddr, loc.recordIndex, c.value),
     path |-> recordPath]

bptReplaceValue(X, recordPath, newValue, returnOldValue) ==
    LET loc == locateRecord(recordPath)
        value == leafGetValue(X.fs, loc.leafAddr, loc.recordIndex)
    IN  replaced(ensureNotOverloadLeaf(ensureNotUnderloadLeaf(
                     valueSet(X, recordPath, loc,
                              CreateValue(DestroyValue(X.fs, value).fs, newValue)))),
                 bytesLen(newValue) - (IF returnOldValue
                                       THEN bytesLen(ReadValue(X.fs, value))
                                       ELSE GetValueSize(X.fs, value)),
                 IF returnOldValue THEN ReadValue(X.fs, value) ELSE noBytes)

\* The views of replaceValue.  A view is what AccessSpace or the controller
\* of a node returns: a window on the region at an address, good until the
\* next AllocateSpace or FreeSpace.  The calls of replaceValue in their
\* order: "access" gets the view of addr, "use" reads or writes through the
\* view of addr that is held, "free" and "alloc" are the calls to the file
\* storage
viewEvent(op, addr) == [op |-> op, addr |-> addr]

replaceValueViews(X, recordPath, newValue) ==
    LET loc == locateRecord(recordPath)
        value == leafGetValue(X.fs, loc.leafAddr, loc.recordIndex)
        d == DestroyValue(X.fs, value)
        c == CreateValue(d.fs, newValue)
        \* getValueOverflow: the address is read from the value on the page
        overflowRead == IF pageLen(value) < maxValueSize THEN <<>>
                        ELSE << viewEvent("use", loc.leafAddr),
                                viewEvent("access", value.addr),
                                viewEvent("use", value.addr) >>
    IN  << viewEvent("access", loc.leafAddr),         \* locateRecord
           viewEvent("use", loc.leafAddr) >>          \* GetValue
        \o (IF overflowRead = <<>>                    \* ReadValue or GetValueSize
            THEN << viewEvent("use", loc.leafAddr) >> ELSE overflowRead)
        \o overflowRead                               \* DestroyValue
        \o (IF d.fs # X.fs THEN << viewEvent("free", value.addr) >> ELSE <<>>)
        \o (IF c.fs # d.fs THEN << viewEvent("alloc", c.value.addr) >> ELSE <<>>)
        \o << viewEvent("use", loc.leafAddr) >>       \* SetValue

\* the positions where a view is used that was got before a free or an
\* alloc, or never
staleUses(events) ==
    {j \in DOMAIN events :
        /\ events[j].op = "use"
        /\ ~\E i \in 1..(j - 1) :
               /\ events[i] = viewEvent("access", events[j].addr)
               /\ \A k \in (i + 1)..(j - 1) : events[k].op \notin {"free", "alloc"}}

\* what a public operation returns: the tree [bpt, fs] after the call, the
\* value and the boolean
returned(Y, value, ok) == [bpt |-> Y.bpt, fs |-> Y.fs, value |-> value, ok |-> ok]

\* insertRecord of the record c.record that createRecord made
insertCreated(c, recordPath) ==
    insertRecord([bpt |-> c.bpt, fs |-> c.fs], recordPath, c.record)

\* what a public operation returns when the step before it made the value
returnedValue(Y, ok) == returned(Y, Y.value, ok)

\* destroyRecord of the record r.record that removeRecord took out
destroyRemoved(r, returnValue) ==
    destroyRecord([bpt |-> r.bpt, fs |-> r.fs], r.record, returnValue)

\* The public operations, with f what findRecord returns for the key
addRecordAt(X, key, value, returnPresentValue, f) ==
    IF f.ok
    THEN returned(X, bptGetValue(X, f.path, returnPresentValue), FALSE)
    ELSE returned(insertCreated(createRecord(X, key, value), f.path), noBytes, TRUE)

AddRecord(X, key, value, returnPresentValue) ==
    addRecordAt(X, key, value, returnPresentValue, findRecord(X, key))

updateRecordAt(X, value, returnReplacedValue, f) ==
    IF ~f.ok
    THEN returned(X, noBytes, FALSE)
    ELSE returnedValue(bptReplaceValue(X, f.path, value, returnReplacedValue), TRUE)

\* UpdateRecord that inserts the record of a key it does not find
UpdateRecord_inserts(X, key, value, returnReplacedValue) ==
    addRecordAt(X, key, value, returnReplacedValue, findRecord(X, key))

UpdateRecord(X, key, value, returnReplacedValue) ==
    updateRecordAt(X, value, returnReplacedValue, findRecord(X, key))

addOrUpdateRecordAt(X, key, value, returnReplacedValue, f) ==
    IF f.ok
    THEN returnedValue(bptReplaceValue(X, f.path, value, returnReplacedValue), FALSE)
    ELSE returned(insertCreated(createRecord(X, key, value), f.path), noBytes, TRUE)

AddOrUpdateRecord(X, key, value, returnReplacedValue) ==
    addOrUpdateRecordAt(X, key, value, returnReplacedValue, findRecord(X, key))

deleteRecordAt(X, returnRemovedValue, f) ==
    IF ~f.ok
    THEN returned(X, noBytes, FALSE)
    ELSE returnedValue(destroyRemoved(removeRecord(X, f.path), returnRemovedValue), TRUE)

DeleteRecord(X, key, returnRemovedValue) ==
    deleteRecordAt(X, returnRemovedValue, findRecord(X, key))

hasRecordAt(X, returnPresentValue, f) ==
    IF ~f.ok THEN [value |-> noBytes, ok |-> FALSE]
    ELSE [value |-> bptGetValue(X, f.path, returnPresentValue), ok |-> TRUE]

HasRecord(X, key, returnPresentValue) ==
    hasRecordAt(X, returnPresentValue, findRecord(X, key))

\* search: the first and the last record of the interval, ok = FALSE when
\* the interval holds no record
noRecords ==
    [minLeafAddr |-> 0, minRecordIndex |-> 0, maxLeafAddr |-> 0, maxRecordIndex |-> 0,
     ok |-> FALSE]

\* search, with minFound and maxFound what findRecord returns for the bounds
searchBetween(X, minKey, maxKey, minFound, maxFound) ==
    LET fs == X.fs
        f1 == isMinKey(minKey)
        f2 == isMinKey(maxKey)
        f3 == isMaxKey(minKey)
        f4 == isMaxKey(maxKey)
        ok1 == f1 \/ f3
        ok2 == f2 \/ f4
        d0 == IF ok1 \/ ok2
              THEN IF ok1 /\ ok2 /\ (X.bpt.recordCount = 1 \/ f1 = f2) THEN 0 ELSE -1
              ELSE bytesCompare(minKey, maxKey)
        ok3 == minFound.ok
        minLoc == locateRecord(minFound.path)
        minLeafController == minLoc.leafAddr
        pastEnd == ~ok3 /\ minLoc.recordIndex = NumberOfRecords(fs, minLeafController)
        minLeafAddr == IF pastEnd THEN fs[minLeafController].next ELSE minLoc.leafAddr
        minRecordIndex == IF pastEnd THEN 0 ELSE minLoc.recordIndex
        single == [minLeafAddr |-> minLeafAddr, minRecordIndex |-> minRecordIndex,
                   maxLeafAddr |-> minLeafAddr, maxRecordIndex |-> minRecordIndex,
                   ok |-> TRUE]
        readMin == ~(~ok1 /\ ok3)
        minKey1 == IF readMin
                   THEN ReadKey(fs, leafGetKey(fs, minLeafController, minRecordIndex))
                   ELSE minKey
        d1 == bytesCompare(minKey1, maxKey)
        ok4 == maxFound.ok
        maxLoc == locateRecord(maxFound.path)
        maxRecordIndex == IF ok4 THEN maxLoc.recordIndex ELSE maxLoc.recordIndex - 1
        readMax == ~(~ok2 /\ ok4)
        maxKey1 == ReadKey(fs, leafGetKey(fs, maxLoc.leafAddr, maxRecordIndex))
    IN  IF X.bpt.recordCount = 0 THEN noRecords
        ELSE IF ok1 /\ ok2 /\ X.bpt.recordCount # 1 /\ f1 # f2 /\ ~f1 THEN noRecords
        ELSE IF ~(ok1 \/ ok2) /\ d0 > 0 THEN noRecords
        ELSE IF pastEnd /\ minLoc.leafAddr = X.bpt.leafList.tailAddr THEN noRecords
        ELSE IF d0 = 0 THEN single
        ELSE IF readMin /\ ~ok2 /\ d1 > 0 THEN noRecords
        ELSE IF readMin /\ ~ok2 /\ d1 = 0 THEN single
        ELSE IF readMax /\ bytesCompare(minKey1, maxKey1) > 0 THEN noRecords
        ELSE [minLeafAddr |-> minLeafAddr, minRecordIndex |-> minRecordIndex,
              maxLeafAddr |-> maxLoc.leafAddr, maxRecordIndex |-> maxRecordIndex,
              ok |-> TRUE]

search(X, minKey, maxKey) ==
    searchBetween(X, minKey, maxKey, findRecord(X, minKey), findRecord(X, maxKey))

\* iterator.ReadRecord at a position
ReadRecord(fs, leafAddr, recordIndex) ==
    [key |-> ReadKey(fs, leafGetKey(fs, leafAddr, recordIndex)),
     value |-> ReadValue(fs, leafGetValue(fs, leafAddr, recordIndex))]

\* iterator.ReadRecord at the records from..to of a leaf
readRecords(fs, leafAddr, from, to) ==
    [i \in 1..(to - from + 1) |-> ReadRecord(fs, leafAddr, from + i - 1)]

\* The records a forward iterator yields from the current position until
\* IsAtEnd, a leaf at a time: up to the last position when it lies ahead in
\* this leaf, else up to the end of the leaf and on with the next leaf.  At
\* most fuel leaves are read
RECURSIVE iterateForward(_, _, _, _, _, _)
iterateForward(fs, currentLeafAddr, currentRecordIndex, lastLeafAddr, lastRecordIndex, fuel) ==
    LET leafEnd == Max2(currentRecordIndex, NumberOfRecords(fs, currentLeafAddr) - 1)
    IN  IF fuel = 0 THEN <<>>
        ELSE IF /\ currentLeafAddr = lastLeafAddr
                /\ currentRecordIndex <= lastRecordIndex
                /\ lastRecordIndex <= leafEnd
        THEN readRecords(fs, currentLeafAddr, currentRecordIndex, lastRecordIndex)
        ELSE readRecords(fs, currentLeafAddr, currentRecordIndex, leafEnd) \o
             iterateForward(fs, fs[currentLeafAddr].next, 0,
                            lastLeafAddr, lastRecordIndex, fuel - 1)

\* SearchForward and the loop "for !it.IsAtEnd() { ReadRecord; Advance }"
iterateForwardIn(fs, s, fuel) ==
    IF ~s.ok THEN <<>>
    ELSE iterateForward(fs, s.minLeafAddr, s.minRecordIndex,
                        s.maxLeafAddr, s.maxRecordIndex, fuel)

SearchForward(X, minKey, maxKey, fuel) ==
    iterateForwardIn(X.fs, search(X, minKey, maxKey), fuel)

\* iterator.ReadRecord at the records from..to of a leaf, from downwards
readRecordsDown(fs, leafAddr, from, to) ==
    [i \in 1..(from - to + 1) |-> ReadRecord(fs, leafAddr, from - i + 1)]

\* The records a backward iterator yields from the current position until
\* IsAtEnd, a leaf at a time: down to the last position when it lies ahead
\* in this leaf, else down to the start of the leaf and on with the last
\* record of the previous leaf.  At most fuel leaves are read
\* iterateBackward that enters the previous leaf at its first record
RECURSIVE iterateBackward_atFirst(_, _, _, _, _, _)
iterateBackward_atFirst(fs, currentLeafAddr, currentRecordIndex, lastLeafAddr, lastRecordIndex, fuel) ==
    LET leafStart == Min2(currentRecordIndex, 0)
    IN  IF fuel = 0 THEN <<>>
        ELSE IF /\ currentLeafAddr = lastLeafAddr
                /\ lastRecordIndex <= currentRecordIndex
                /\ leafStart <= lastRecordIndex
        THEN readRecordsDown(fs, currentLeafAddr, currentRecordIndex, lastRecordIndex)
        ELSE readRecordsDown(fs, currentLeafAddr, currentRecordIndex, leafStart) \o
             iterateBackward_atFirst(fs, fs[currentLeafAddr].prev, 0,
                                     lastLeafAddr, lastRecordIndex, fuel - 1)

RECURSIVE iterateBackward(_, _, _, _, _, _)
iterateBackward(fs, currentLeafAddr, currentRecordIndex, lastLeafAddr, lastRecordIndex, fuel) ==
    LET leafStart == Min2(currentRecordIndex, 0)
    IN  IF fuel = 0 THEN <<>>
        ELSE IF /\ currentLeafAddr = lastLeafAddr
                /\ lastRecordIndex <= currentRecordIndex
                /\ leafStart <= lastRecordIndex
        THEN readRecordsDown(fs, currentLeafAddr, currentRecordIndex, lastRecordIndex)
        ELSE readRecordsDown(fs, currentLeafAddr, currentRecordIndex, leafStart) \o
             iterateBackward(fs, fs[currentLeafAddr].prev,
                             NumberOfRecords(fs, fs[currentLeafAddr].prev) - 1,
                             lastLeafAddr, lastRecordIndex, fuel - 1)

iterateBackwardIn(fs, s, fuel) ==
    IF ~s.ok THEN <<>>
    ELSE iterateBackward(fs, s.maxLeafAddr, s.maxRecordIndex,
                         s.minLeafAddr, s.minRecordIndex, fuel)

\* SearchBackward and the loop "for !it.IsAtEnd() { ReadRecord; Advance }"
SearchBackward(X, minKey, maxKey, fuel) ==
    iterateBackwardIn(X.fs, search(X, minKey, maxKey), fuel)

(***************************************************************************)
(* The iterator as the struct of its fields.  fileStorage tells whether    *)
(* the field holds the file storage or nil.                                *)
(***************************************************************************)
iteratorInit(firstLeafAddr, firstRecordIndex, lastLeafAddr, lastRecordIndex, isAtEnd) ==
    [fileStorage |-> TRUE,
     currentLeafAddr |-> firstLeafAddr, currentRecordIndex |-> firstRecordIndex,
     lastLeafAddr |-> lastLeafAddr, lastRecordIndex |-> lastRecordIndex,
     isAtEnd |-> isAtEnd]

\* iterator{isAtEnd: true}
endedIterator ==
    [fileStorage |-> FALSE,
     currentLeafAddr |-> 0, currentRecordIndex |-> 0,
     lastLeafAddr |-> 0, lastRecordIndex |-> 0,
     isAtEnd |-> TRUE]

\* preAdvance that clears the struct, the flag included
preAdvance_cleared(it) ==
    IF /\ it.currentLeafAddr = it.lastLeafAddr
       /\ it.currentRecordIndex = it.lastRecordIndex
    THEN [endedIterator EXCEPT !.isAtEnd = FALSE]
    ELSE it

preAdvance(it) ==
    IF /\ it.currentLeafAddr = it.lastLeafAddr
       /\ it.currentRecordIndex = it.lastRecordIndex
    THEN endedIterator
    ELSE it

\* the step of forwardIterator.Advance after preAdvance
forwardStep(fs, it) ==
    IF it.isAtEnd THEN it
    ELSE IF it.currentRecordIndex < NumberOfRecords(fs, it.currentLeafAddr) - 1
    THEN [it EXCEPT !.currentRecordIndex = @ + 1]
    ELSE [it EXCEPT !.currentLeafAddr = fs[it.currentLeafAddr].next,
                    !.currentRecordIndex = 0]

forwardAdvance(fs, it) == forwardStep(fs, preAdvance(it))

\* the step of backwardIterator.Advance after preAdvance
backwardStep(fs, it) ==
    IF it.isAtEnd THEN it
    ELSE IF it.currentRecordIndex >= 1
    THEN [it EXCEPT !.currentRecordIndex = @ - 1]
    ELSE [it EXCEPT !.currentLeafAddr = fs[it.currentLeafAddr].prev,
                    !.currentRecordIndex =
                        NumberOfRecords(fs, fs[it.currentLeafAddr].prev) - 1]

backwardAdvance(fs, it) == backwardStep(fs, preAdvance(it))

\* what a read of the iterator returns: errEndOfIteration and no data when
\* the iteration has no more records, else the data and no error
iteratorRead(it, none, data) ==
    IF it.isAtEnd THEN [data |-> none, err |-> TRUE]
    ELSE [data |-> data, err |-> FALSE]

iteratorGetKeySize(fs, it) ==
    iteratorRead(it, 0,
        bytesLen(ReadKey(fs, leafGetKey(fs, it.currentLeafAddr, it.currentRecordIndex))))

\* ReadKey into a buffer of the given length: the number of bytes read
iteratorReadKey(fs, it, dataOffset, length) ==
    iteratorRead(it, 0,
        bytesLen(bytesTake(bytesDrop(ReadKey(fs, leafGetKey(fs, it.currentLeafAddr,
                                                            it.currentRecordIndex)),
                                     dataOffset),
                           length)))

iteratorReadKeyAll(fs, it) ==
    iteratorRead(it, <<>>,
        ReadKey(fs, leafGetKey(fs, it.currentLeafAddr, it.currentRecordIndex)))

iteratorGetValueSize(fs, it) ==
    iteratorRead(it, 0,
        bytesLen(ReadValue(fs, leafGetValue(fs, it.currentLeafAddr, it.currentRecordIndex))))

\* ReadValue into a buffer of the given length: the number of bytes read
iteratorReadValue(fs, it, dataOffset, length) ==
    iteratorRead(it, 0,
        bytesLen(bytesTake(bytesDrop(ReadValue(fs, leafGetValue(fs, it.currentLeafAddr,
                                                                it.currentRecordIndex)),
                                     dataOffset),
                           length)))

iteratorReadValueAll(fs, it) ==
    iteratorRead(it, <<>>,
        ReadValue(fs, leafGetValue(fs, it.currentLeafAddr, it.currentRecordIndex)))

iteratorReadRecordAll(fs, it) ==
    iteratorRead(it, <<>>, ReadRecord(fs, it.currentLeafAddr, it.currentRecordIndex))

\* SearchForward and SearchBackward: the iterator made of what search returns
forwardIterator(s) ==
    iteratorInit(s.minLeafAddr, s.minRecordIndex, s.maxLeafAddr, s.maxRecordIndex, ~s.ok)

backwardIterator(s) ==
    iteratorInit(s.maxLeafAddr, s.maxRecordIndex, s.minLeafAddr, s.minRecordIndex, ~s.ok)

\* BPTree.Store: the info address and the state left behind (a struct
\* without a tree); the region holds the fields of the tree's info record
bptStore(X) ==
    LET info == [RootAddr |-> X.bpt.rootAddr,
                 Height |-> X.bpt.height,
                 LeafHeadAddr |-> X.bpt.leafList.headAddr,
                 LeafTailAddr |-> X.bpt.leafList.tailAddr,
                 LeafCount |-> X.bpt.leafCount,
                 NonLeafCount |-> X.bpt.nonLeafCount,
                 RecordCount |-> X.bpt.recordCount,
                 PayloadSize |-> X.bpt.payloadSize]
        a == AllocateSpace(X.fs, [kind |-> "info", info |-> info])
    IN  [infoAddr |-> a.addr, X |-> [bpt |-> bptInit, fs |-> a.fs]]

\* BPTree.Load
bptLoad(X, infoAddr) ==
    LET info == X.fs[infoAddr].info
    IN  [bpt |-> [rootAddr |-> info.RootAddr,
                  height |-> info.Height,
                  leafList |-> [tailAddr |-> info.LeafTailAddr,
                                headAddr |-> info.LeafHeadAddr],
                  leafCount |-> info.LeafCount,
                  nonLeafCount |-> info.NonLeafCount,
                  recordCount |-> info.RecordCount,
                  payloadSize |-> info.PayloadSize],
         fs |-> FreeSpace(X.fs, infoAddr)]

\* concatenation of the sequences of a sequence
RECURSIVE flatten(_)
flatten(ss) == IF ss = <<>> THEN <<>> ELSE Head(ss) \o flatten(Tail(ss))

\* the children of the non-leaves in nodes, left to right
tChildren(fs, nodes) ==
    flatten([i \in 1..Len(nodes) |->
                [c \in 1..Len(fs[nodes[i]].children) |-> fs[nodes[i]].children[c].Addr]])

\* the levels of the tree below nodes, depth levels above the leaves
RECURSIVE tLevels(_, _, _)
tLevels(fs, nodes, depth) ==
    IF depth = 0 THEN <<nodes>>
    ELSE <<nodes>> \o tLevels(fs, tChildren(fs, nodes), depth - 1)

\* the overflow regions of the records of a leaf, in record order
tOverflows(fs, leafAddr) ==
    flatten([i \in 1..Len(fs[leafAddr].recs) |->
                LET r == fs[leafAddr].recs[i]
                IN  (IF r.Key.addr >= 0 THEN <<r.Key.addr>> ELSE <<>>) \o
                    (IF r.Value.addr >= 0 THEN <<r.Value.addr>> ELSE <<>>)])

\* The regions of the tree in the order root, nodes level by level, overflow
\* regions in key order, followed by every other live region
tRegionOrder(bpt, fs) ==
    LET levels == tLevels(fs, <<bpt.rootAddr>>, bpt.height - 1)
        leaves == levels[bpt.height]
        reach == flatten(levels) \o
                 flatten([i \in 1..Len(leaves) |-> tOverflows(fs, leaves[i])])
    IN  reach \o SetToSeq(DOMAIN fs \ {reach[i] : i \in 1..Len(reach)})

\* the function from order[i] to i for i in lo..hi, order[lo..hi] holding
\* no address twice
RECURSIVE positions(_, _, _)
positions(order, lo, hi) ==
    IF lo = hi THEN order[lo] :> lo
    ELSE LET mid == (lo + hi) \div 2
         IN  positions(order, lo, mid) @@ positions(order, mid + 1, hi)

\* the storage with its regions renamed in that order
tRenameStorage(fs, order) ==
    LET pos == positions(order, 1, Len(order))
        rn(a) == IF a < 0 THEN a ELSE IF a \in DOMAIN fs THEN pos[a] - 1 ELSE danglingAddr
        rnk(k) == [k EXCEPT !.addr = rn(k.addr)]
    IN  [a \in 0..(Len(order) - 1) |->
            LET r == fs[order[a + 1]]
            IN  IF r.kind = "leaf"
                THEN [r EXCEPT !.prev = rn(r.prev), !.next = rn(r.next),
                               !.recs = [i \in 1..Len(r.recs) |->
                                            [Key |-> rnk(r.recs[i].Key),
                                             Value |-> rnk(r.recs[i].Value)]]]
                ELSE IF r.kind = "nonleaf"
                THEN [r EXCEPT !.children = [i \in 1..Len(r.children) |->
                                                [Key |-> rnk(r.children[i].Key),
                                                 Addr |-> rn(r.children[i].Addr)]]]
                ELSE IF r.kind = "info"
                THEN [r EXCEPT !.info.RootAddr = rn(r.info.RootAddr),
                               !.info.LeafHeadAddr = rn(r.info.LeafHeadAddr),
                               !.info.LeafTailAddr = rn(r.info.LeafTailAddr)]
                ELSE r]

\* an open tree with its regions renamed
tRenamed(X) ==
    LET order == tRegionOrder(X.bpt, X.fs)
    IN  IF Cardinality({order[i] : i \in 1..Len(order)}) # Len(order) THEN X
        ELSE [bpt |-> [X.bpt EXCEPT !.rootAddr = renameAddr(order, @),
                                    !.leafList.tailAddr = renameAddr(order, @),
                                    !.leafList.headAddr = renameAddr(order, @)],
              fs |-> tRenameStorage(X.fs, order)]

\* a stored tree with its regions renamed: the new info address and the new
\* storage
tRenamedStored(fs, infoAddr) ==
    LET info == fs[infoAddr].info
        order == tRegionOrder([rootAddr |-> info.RootAddr, height |-> info.Height], fs)
    IN  IF Cardinality({order[i] : i \in 1..Len(order)}) # Len(order)
        THEN [infoAddr |-> infoAddr, fs |-> fs]
        ELSE [infoAddr |-> renameAddr(order, infoAddr), fs |-> tRenameStorage(fs, order)]

\* no ordered dictionary is open
tUnused ==
    /\ tbpt = bptInit
    /\ tfs = <<>>
    /\ tref = <<>>
    /\ tres = <<>>
    /\ tprimary = -1
    /\ tphase = "off"

(***************************************************************************)
(* The hash map under a client that calls its operations in any order on   *)
(* a small set of keys and values, and closes and reopens it.              *)
(***************************************************************************)
\* number of keys and of values the client uses
NumHKeys == 4
NumHValues == 2

HValueList == << <<>>, <<7, 8>>, <<9>> >>

HKeys == {HKeyList[i] : i \in 1..NumHKeys}

HValues == {HValueList[i] : i \in 1..NumHValues}

absent == [present |-> FALSE, value |-> <<>>]

HState == [hm |-> hm, fs |-> hfs]

hIsOpen == hm.slotDirsAddr >= 0

\* what a client can observe of the hash map
hObservable(S) ==
    [has |-> [k \in HKeys |-> HasItem(S, k, TRUE)],
     stats |-> [S.hm EXCEPT !.slotDirsAddr = 0],
     scan |-> scanFrom(S, zeroCursor)]

HInit ==
    LET S == Create(<<>>)
    IN  /\ hm = S.hm
        /\ hfs = S.fs
        /\ href = [k \in HKeys |-> absent]
        /\ hres = [agree |-> TRUE]
        /\ hprimary = -1
        /\ sphase = "off"
        /\ tUnused

hReturn(do, entry) == IF do THEN entry.value ELSE <<>>

\* hres tells whether the call returned what the reference map returns.
\* The end of a call: S is the state the call left, value and ok what it
\* returned, expected what the reference map returns, ref the reference map
\* after the call
hLeft(S, value, ok, expected, ref) ==
    /\ hm' = S.hm
    /\ hfs' = S.fs
    /\ href' = ref
    /\ hres' = [agree |-> <<value, ok>> = expected]
    /\ UNCHANGED <<hprimary, sphase, tvars>>

\* the call leaves the regions renamed in directory order, one representative of
\* the states that differ in the names of addresses only
hReturned(r, expected, ref) == hLeft(hRenamed(r.S), r.value, r.ok, expected, ref)

HAdd(k, v, do) ==
    /\ hIsOpen
    /\ hReturned(AddItem(HState, k, v, do),
                 <<hReturn(do, href[k]), ~href[k].present>>,
                 IF href[k].present THEN href
                 ELSE [href EXCEPT ![k] = [present |-> TRUE, value |-> v]])

HUpdate(k, v, do) ==
    /\ hIsOpen
    /\ hReturned(UpdateItem(HState, k, v, do),
                 <<hReturn(do, href[k]), href[k].present>>,
                 IF href[k].present
                 THEN [href EXCEPT ![k] = [present |-> TRUE, value |-> v]]
                 ELSE href)

HAddOrUpdate(k, v, do) ==
    /\ hIsOpen
    /\ hReturned(AddOrUpdateItem(HState, k, v, do),
                 <<hReturn(do, href[k]), ~href[k].present>>,
                 [href EXCEPT ![k] = [present |-> TRUE, value |-> v]])

HDelete(k, do) ==
    /\ hIsOpen
    /\ hReturned(DeleteItem(HState, k, do),
                 <<hReturn(do, href[k]), href[k].present>>,
                 [href EXCEPT ![k] = absent])

HClose ==
    LET r == Store(HState)
        stored == hRenamedStored(r.S.fs, r.infoAddr)
    IN  /\ hIsOpen
        /\ hm' = r.S.hm
        /\ hfs' = stored.fs
        /\ hprimary' = stored.infoAddr
        /\ UNCHANGED <<href, hres, sphase, tvars>>

\* OpenDict on an existing file: Load from the primary space
HOpen ==
    LET S == hRenamed(Load(HState, hprimary))
    IN  /\ ~hIsOpen
        /\ hprimary >= 0
        /\ hm' = S.hm
        /\ hfs' = S.fs
        /\ UNCHANGED <<href, hres, hprimary, sphase, tvars>>

HNext ==
    \/ \E k \in HKeys, v \in HValues : HAdd(k, v, TRUE)
    \/ \E k \in HKeys, v \in HValues : HUpdate(k, v, TRUE)
    \/ \E k \in HKeys, v \in HValues : HAddOrUpdate(k, v, TRUE)
    \/ \E k \in HKeys, do \in BOOLEAN : HDelete(k, do)
    \/ HClose
    \/ HOpen

SpecHash == HInit /\ [][HNext]_vars

(***************************************************************************)
(* The scale run of the hash map.  Its steps are successful AddItem and     *)
(* DeleteItem calls with the contents of the items left out (every slot     *)
(* stays empty): after the item is appended or removed, AddItem runs        *)
(* postAddItem and DeleteItem runs postDeleteItem, and these decide the     *)
(* counters, the slots and the slot directories.  Below SFreeItems items    *)
(* the calls come in any order; above, the run fills the map up to          *)
(* MaxScaleItems items and then drains it.                                  *)
(***************************************************************************)
SInit ==
    LET S == Create(contentFreeStorage)
    IN  /\ hm = S.hm
        /\ hfs = S.fs
        /\ href = <<>>
        /\ hres = <<>>
        /\ hprimary = -1
        /\ sphase = "fill"
        /\ tUnused

SAdd ==
    LET S == postAddItem(HState)
    IN  /\ sphase = "fill"
        /\ hm.itemCount < MaxScaleItems
        /\ hm' = S.hm
        /\ hfs' = S.fs
        /\ UNCHANGED <<href, hres, hprimary, sphase, tvars>>

SDelete ==
    LET S == postDeleteItem(HState)
    IN  /\ \/ sphase = "drain"
           \/ hm.itemCount = MaxScaleItems
           \/ hm.itemCount <= SFreeItems
        /\ hm.itemCount > 0
        /\ hm' = S.hm
        /\ hfs' = S.fs
        /\ sphase' = IF S.hm.itemCount < SFreeItems THEN "fill" ELSE "drain"
        /\ UNCHANGED <<href, hres, hprimary, tvars>>

SNext == SAdd \/ SDelete

SpecScale == SInit /\ [][SNext]_vars

(***************************************************************************)
(* A scan of the hash dictionary under a client that also sets and clears  *)
(* keys between the Scan calls.  sphase tells whether the scan has not     *)
(* begun ("idle"), is under way ("scanning") or has reported that no item  *)
(* is left ("done").  hres is the scan: the cursor, the keys returned so   *)
(* far, the keys that are in the dictionary since the first Scan call, and *)
(* whether the dictionary was modified since the first Scan call.          *)
(***************************************************************************)
CValue == HValueList[2]

cPresent == {k \in HKeys : href[k].present}

CInit ==
    LET S == Create(<<>>)
    IN  /\ hm = S.hm
        /\ hfs = S.fs
        /\ href = [k \in HKeys |-> absent]
        /\ hres = [cursor |-> zeroCursor, returned |-> <<>>, stable |-> {},
                   modified |-> FALSE]
        /\ hprimary = -1
        /\ sphase = "idle"
        /\ tUnused

\* the end of a Set or Clear call that returned r for key k
cModified(r, k, ref) ==
    /\ hm' = hRenamed(r.S).hm
    /\ hfs' = hRenamed(r.S).fs
    /\ href' = ref
    /\ hres' = [hres EXCEPT !.stable = IF r.ok THEN @ \ {k} ELSE @,
                            !.modified = @ \/ (r.ok /\ sphase = "scanning")]
    /\ UNCHANGED <<hprimary, sphase, tvars>>

\* SetIfNotExists
CAdd(k) ==
    /\ sphase \in {"idle", "scanning"}
    /\ cModified(AddItem(HState, k, CValue, FALSE), k,
                 IF href[k].present THEN href
                 ELSE [href EXCEPT ![k] = [present |-> TRUE, value |-> CValue]])

\* Clear
CDelete(k) ==
    /\ sphase \in {"idle", "scanning"}
    /\ cModified(DeleteItem(HState, k, FALSE), k, [href EXCEPT ![k] = absent])

\* the end of a Scan call that returned f; the first call begins the scan
cFetched(f) ==
    /\ hres' = [cursor |-> f.cursor,
                returned |-> IF f.ok THEN Append(hres.returned, f.key) ELSE hres.returned,
                stable |-> IF sphase = "idle" THEN cPresent ELSE hres.stable,
                modified |-> hres.modified]
    /\ sphase' = IF f.ok THEN "scanning" ELSE "done"
    /\ UNCHANGED <<hm, hfs, href, hprimary, tvars>>

\* Scan
CFetch ==
    /\ sphase \in {"idle", "scanning"}
    /\ cFetched(FetchItem(HState, hres.cursor))

CNext ==
    \/ \E k \in HKeys : CAdd(k)
    \/ \E k \in HKeys : CDelete(k)
    \/ CFetch

SpecScan == CInit /\ [][CNext]_vars

(***************************************************************************)
(* The B+ tree under the client of an ordered dictionary.  The base keys   *)
(* are keys of 257 bytes in ascending order, each with a value of 127      *)
(* bytes: the client adds them in ascending order, up to MaxFill of them,  *)
(* and from the drain points on may instead delete them again from either  *)
(* end.  At the checkpoints of the fill the client may go on with calls in *)
(* any order on the hot keys, which lie between the first base keys, and   *)
(* close and reopen the dictionary.                                        *)
(***************************************************************************)
\* number of base keys
MaxFill == 600
\* number of base keys after which two leaves are both as full as they get
FillTwoLeaves == 38
\* number of base keys with which the tree has three levels
FillThreeLevels == 575
\* number of hot keys and of values the client uses
NumTHotKeys == 3
NumTValues == 2

TCheckpoints == {0, FillTwoLeaves}

TDrainPoints == {FillTwoLeaves, FillThreeLevels}

TBaseKey(i) == mkBytes(<<1 + (i \div 200), 1 + (i % 200)>>, maxKeySize - 2)

TBaseValue == mkBytes(<<5>>, maxValueSize - 3)

\* a short key behind base key 19, the longest key that stays on the page,
\* a key with overflow, the same key with one more zero byte in the
\* overflow, a short key
THotKeyList ==
    << mkBytes(<<1, 20, 1>>, 0),
       mkBytes(<<1, 3, 1>>, maxKeySize - 4),
       mkBytes(<<1, 4, 1>>, 297),
       mkBytes(<<1, 4, 1>>, 298),
       mkBytes(<<1, 5, 1>>, 0) >>

\* a short value, a value with overflow, the empty value
TValueList == << mkBytes(<<7>>, 0), mkBytes(<<9>>, 199), mkBytes(<<>>, 0) >>

TState == [bpt |-> tbpt, fs |-> tfs]

tIsOpen == tbpt.rootAddr >= 0

\* keys are named by numbers: i > 0 is base key i, -j is hot key j
tKey(id) == IF id > 0 THEN TBaseKey(id) ELSE THotKeyList[-id]

tAbsent == [present |-> FALSE, value |-> noBytes]

\* The reference map: base keys lo..hi hold the base value; hot key j holds
\* value hot[j] of TValueList, or nothing when hot[j] = 0
refGet(ref, id) ==
    IF id > 0
    THEN IF ref.lo <= id /\ id <= ref.hi
         THEN [present |-> TRUE, value |-> TBaseValue]
         ELSE tAbsent
    ELSE IF -id \in DOMAIN ref.hot /\ ref.hot[-id] # 0
         THEN [present |-> TRUE, value |-> TValueList[ref.hot[-id]]]
         ELSE tAbsent

tReturn(do, entry) == IF do THEN entry.value ELSE noBytes

\* the pages that were written past their capacity
overrunPages(fs) ==
    {a \in DOMAIN fs : fs[a].kind \in {"leaf", "nonleaf"} /\ fs[a].overrun}

\* no hash dictionary is open
hUnused ==
    /\ hm = hmInit
    /\ hfs = <<>>
    /\ href = <<>>
    /\ hres = <<>>
    /\ hprimary = -1
    /\ sphase = "off"

\* OpenOrderedDict on a new file: Create
TInit ==
    LET X == bptCreate(<<>>)
    IN  /\ tbpt = X.bpt
        /\ tfs = X.fs
        /\ tref = [lo |-> 1, hi |-> 0, hot |-> [j \in 1..NumTHotKeys |-> 0]]
        /\ tres = [agree |-> TRUE]
        /\ tprimary = -1
        /\ tphase = "fill"
        /\ hUnused

\* The end of a call: r is what the call returned and left, expected what
\* the reference map returns, ref the reference map after the call.  A call
\* that writes a page past its capacity does not return.  The calls on the
\* hot keys leave the regions renamed in tree order, one representative of
\* the states that differ in the names of addresses only
tReturned(r, expected, ref, phase) ==
    LET crashed == overrunPages(r.fs) # {}
        X == IF phase = "free" /\ ~crashed /\ r.fs # tfs
             THEN tRenamed([bpt |-> r.bpt, fs |-> r.fs])
             ELSE [bpt |-> r.bpt, fs |-> r.fs]
    IN  /\ tbpt' = X.bpt
        /\ tfs' = X.fs
        /\ tref' = ref
        /\ tres' = [agree |-> ~crashed /\ <<r.value, r.ok>> = expected]
        /\ tphase' = IF crashed THEN "crashed" ELSE phase
        /\ UNCHANGED <<tprimary, hvars>>

tAtCheckpoint ==
    /\ tIsOpen
    /\ tphase = "free" \/ (tphase = "fill" /\ tref.hi \in TCheckpoints)

\* SetIfNotExists of the next base key
TFill ==
    /\ tphase = "fill"
    /\ tref.hi + 1 <= MaxFill
    /\ tReturned(AddRecord(TState, TBaseKey(tref.hi + 1), TBaseValue, TRUE),
                 <<noBytes, TRUE>>, [tref EXCEPT !.hi = @ + 1], "fill")

\* Clear of the least (dir = "asc") or the greatest (dir = "desc") base key
TDrain(dir) ==
    /\ (tphase = "fill" /\ tref.hi \in TDrainPoints) \/ tphase = dir
    /\ tref.lo <= tref.hi
    /\ tReturned(DeleteRecord(TState,
                              TBaseKey(IF dir = "asc" THEN tref.lo ELSE tref.hi), TRUE),
                 <<TBaseValue, TRUE>>,
                 IF dir = "asc" THEN [tref EXCEPT !.lo = @ + 1]
                 ELSE [tref EXCEPT !.hi = @ - 1],
                 dir)

\* the SetIfExists or the Set of the key finds the record and its
\* replaceValue uses a view stale
tStale(key, v) ==
    LET f == findRecord(TState, key)
    IN  f.ok /\ staleUses(replaceValueViews(TState, f.path, TValueList[v])) # {}

\* The end of a call that uses a view stale.  Where the view points after
\* the free or the alloc is up to the file storage: the write lands on the
\* page, and the call ends as returns says, or it lands outside the file
\* and the call does not return
tMayNotReturn(stale, returns) ==
    \E lost \in (IF stale THEN BOOLEAN ELSE {FALSE}) :
        IF lost
        THEN /\ tphase' = "crashed"
             /\ tres' = [agree |-> FALSE]
             /\ UNCHANGED <<tbpt, tfs, tref, tprimary, hvars>>
        ELSE returns

\* SetIfNotExists
TAdd(j, v, do) ==
    LET e == refGet(tref, -j)
    IN  /\ tAtCheckpoint
        /\ tReturned(AddRecord(TState, THotKeyList[j], TValueList[v], do),
                     <<tReturn(do, e), ~e.present>>,
                     IF e.present THEN tref ELSE [tref EXCEPT !.hot[j] = v], "free")

\* SetIfExists
TUpdate(j, v, do) ==
    LET e == refGet(tref, -j)
    IN  /\ tAtCheckpoint
        /\ tMayNotReturn(
               tStale(THotKeyList[j], v),
               tReturned(UpdateRecord(TState, THotKeyList[j], TValueList[v], do),
                         <<tReturn(do, e), e.present>>,
                         IF e.present THEN [tref EXCEPT !.hot[j] = v] ELSE tref, "free"))

\* Set
TAddOrUpdate(j, v, do) ==
    LET e == refGet(tref, -j)
    IN  /\ tAtCheckpoint
        /\ tMayNotReturn(
               tStale(THotKeyList[j], v),
               tReturned(AddOrUpdateRecord(TState, THotKeyList[j], TValueList[v], do),
                         <<tReturn(do, e), ~e.present>>, [tref EXCEPT !.hot[j] = v],
                         "free"))

\* Clear
TDelete(j, do) ==
    LET e == refGet(tref, -j)
    IN  /\ tAtCheckpoint
        /\ tReturned(DeleteRecord(TState, THotKeyList[j], do),
                     <<tReturn(do, e), e.present>>, [tref EXCEPT !.hot[j] = 0], "free")

\* Close: Store, and the info address becomes the primary space
TClose ==
    LET r == bptStore(TState)
        s == tRenamedStored(r.X.fs, r.infoAddr)
    IN  /\ tAtCheckpoint
        /\ tbpt' = r.X.bpt
        /\ tfs' = s.fs
        /\ tprimary' = s.infoAddr
        /\ tphase' = "free"
        /\ UNCHANGED <<tref, tres, hvars>>

\* OpenOrderedDict on the file that Close left: Load from the primary space
TOpen ==
    LET X == tRenamed(bptLoad(TState, tprimary))
    IN  /\ ~tIsOpen
        /\ tphase = "free"
        /\ tbpt' = X.bpt
        /\ tfs' = X.fs
        /\ UNCHANGED <<tref, tres, tprimary, tphase, hvars>>

TNext ==
    \/ TFill
    \/ \E dir \in {"asc", "desc"} : TDrain(dir)
    \/ \E j \in 1..NumTHotKeys, v \in 1..NumTValues : TAdd(j, v, TRUE)
    \/ \E j \in 1..NumTHotKeys, v \in 1..NumTValues : TUpdate(j, v, TRUE)
    \/ \E j \in 1..NumTHotKeys, v \in 1..NumTValues : TAddOrUpdate(j, v, FALSE)
    \/ \E j \in 1..NumTHotKeys, do \in BOOLEAN : TDelete(j, do)
    \/ TClose
    \/ TOpen

SpecTree == TInit /\ [][TNext]_vars

(***************************************************************************)
(* The client that asks for ranges: the fill and the drains as above, and  *)
(* at the checkpoints SetIfNotExists and Clear of the hot keys, with one   *)
(* value.                                                                  *)
(***************************************************************************)
RNext ==
    \/ TFill
    \/ \E dir \in {"asc", "desc"} : TDrain(dir)
    \/ \E j \in 1..NumTHotKeys : TAdd(j, 1, FALSE)
    \/ \E j \in 1..NumTHotKeys : TDelete(j, FALSE)

SpecRange == TInit /\ [][RNext]_vars

(***************************************************************************)
(* The client that passes the sentinels as keys: the calls on the hot keys *)
(* and the same calls with MinKey and MaxKey as the key, on a tree that    *)
(* starts empty.  The reference map is not kept in this run.               *)
(***************************************************************************)
NKeys == {THotKeyList[j] : j \in 1..NumTHotKeys} \cup {MinKey, MaxKey}

\* the end of a call that returned r
nReturned(r) == tReturned(r, <<r.value, r.ok>>, tref, "free")

\* SetIfNotExists, SetIfExists, Set and Clear
NNext ==
    \/ \E k \in NKeys, v \in 1..NumTValues :
           tIsOpen /\ nReturned(AddRecord(TState, k, TValueList[v], TRUE))
    \/ \E k \in NKeys, v \in 1..NumTValues :
           tIsOpen /\ tMayNotReturn(tStale(k, v),
                                    nReturned(UpdateRecord(TState, k, TValueList[v], TRUE)))
    \/ \E k \in NKeys, v \in 1..NumTValues :
           tIsOpen /\ tMayNotReturn(tStale(k, v),
                                    nReturned(AddOrUpdateRecord(TState, k, TValueList[v],
                                                                TRUE)))
    \/ \E k \in NKeys :
           tIsOpen /\ nReturned(DeleteRecord(TState, k, TRUE))

SpecSentinel == TInit /\ [][NNext]_vars

(***************************************************************************)
(* The hash map filled and emptied again, as TestHashMapDeleteItem does    *)
(* it.  One run has the items of the keys HKeys, added and deleted in any  *)
(* order with Store and Load in between, and ends with Destroy (sphase is  *)
(* "live", then "destroyed").  The other run leaves the contents of the    *)
(* items out, as the scale run does: it fills the map ("fill") up to one   *)
(* of the EDrainPoints, empties it ("drain") and fills it again.  hres     *)
(* holds the number of items the map has to hold and the greatest number   *)
(* it had to hold so far.                                                  *)
(***************************************************************************)
MaxDrainItems == 53100

EDrainPoints == {1, MaxDrainItems \div 2, MaxDrainItems}

EInit ==
    /\ \/ /\ hm = Create(<<>>).hm
          /\ hfs = Create(<<>>).fs
          /\ href = [k \in HKeys |-> absent]
          /\ sphase = "live"
       \/ /\ hm = Create(contentFreeStorage).hm
          /\ hfs = Create(contentFreeStorage).fs
          /\ href = <<>>
          /\ sphase = "fill"
    /\ hres = [count |-> 0, peak |-> 0]
    /\ hprimary = -1
    /\ tUnused

\* the end of a call that left S, with count items to hold
eLeft(S, ref, count, phase) ==
    /\ hm' = S.hm
    /\ hfs' = S.fs
    /\ href' = ref
    /\ hres' = [count |-> count, peak |-> IF count > hres.peak THEN count ELSE hres.peak]
    /\ sphase' = phase
    /\ UNCHANGED <<hprimary, tvars>>

\* the end of an AddItem or DeleteItem call that returned r
eReturned(r, ref) ==
    eLeft(hRenamed(r.S), ref, Cardinality({k \in HKeys : ref[k].present}), "live")

ENext ==
    \/ \E k \in HKeys, v \in HValues :
          /\ sphase = "live" /\ hIsOpen
          /\ eReturned(AddItem(HState, k, v, FALSE),
                       IF href[k].present THEN href
                       ELSE [href EXCEPT ![k] = [present |-> TRUE, value |-> v]])
    \/ \E k \in HKeys :
          /\ sphase = "live" /\ hIsOpen
          /\ eReturned(DeleteItem(HState, k, TRUE), [href EXCEPT ![k] = absent])
    \/ sphase = "live" /\ HClose
    \/ sphase = "live" /\ HOpen
    \/ /\ sphase = "live" /\ hIsOpen
       /\ eLeft(Destroy(HState), href, hres.count, "destroyed")
    \/ /\ sphase = "fill" /\ hres.count < MaxDrainItems
       /\ eLeft(postAddItem(HState), href, hres.count + 1, "fill")
    \/ /\ sphase = "drain" \/ (sphase = "fill" /\ hres.count \in EDrainPoints)
       /\ hres.count > 0
       /\ eLeft(postDeleteItem(HState), href, hres.count - 1,
                IF hres.count = 1 THEN "fill" ELSE "drain")

SpecDrain == EInit /\ [][ENext]_vars

(***************************************************************************)
(* A dictionary of either kind: a run is a run of the hash dictionary or a *)
(* run of the ordered dictionary.                                          *)
(***************************************************************************)
DInit == HInit \/ TInit

DNext == HNext \/ TNext

SpecDict == DInit /\ [][DNext]_vars

(***************************************************************************)
(* Properties of the hash map.                                             *)
(***************************************************************************)
\* every key the client could ask for, used or not
AllHKeys == {HKeyList[i] : i \in 1..Len(HKeyList)}

refLookup(k) == IF k \in HKeys THEN href[k] ELSE absent

\* C1: every add, update, add_or_update and delete call returns what the
\* same call returns on the reference map, and afterwards has(k) is
\* (v, true) exactly for the pairs k -> v of the reference map and
\* (_, false) for every other key
C1_HashRefinesMap ==
    /\ hres.agree
    /\ hIsOpen =>
          \A k \in AllHKeys :
              HasItem(HState, k, TRUE)
                  = [value |-> refLookup(k).value, ok |-> refLookup(k).present]

\* the map went through splits up to three slots and holds a replaced value
C1_Witness ==
    /\ hIsOpen
    /\ hm.slotCount = 3
    /\ hm.itemCount = 3
    /\ \E k \in HKeys : href[k].present /\ href[k].value = HValueList[2]
    /\ \E k \in HKeys : href[k].present /\ href[k].value = HValueList[1]

\* C7: after every operation, with two slots or more, the load factor
\* item_count / slot_count lies in [minLoad, maxLoad], maxLoad being the
\* golden ratio 1.618... and minLoad half of it
C7_LoadFactorInBounds ==
    hm.slotCount >= 2 =>
        /\ hm.itemCount * hm.itemCount - hm.itemCount * hm.slotCount
              - hm.slotCount * hm.slotCount <= 0
        /\ 4 * hm.itemCount * hm.itemCount - 2 * hm.itemCount * hm.slotCount
              - hm.slotCount * hm.slotCount >= 0

\* a delete found six slots and five items and had to merge twice
C7_Witness == sphase = "fill" /\ hm.slotCount = 4 /\ hm.itemCount = 4

C9_SlotCountBounds ==
    /\ Pow2(hm.minSlotCountShift) <= hm.slotCount
    /\ hm.slotCount <= Pow2(hm.minSlotCountShift + 1)

\* the map shrank back to exactly 2^13 slots
C9_Witness ==
    /\ sphase = "drain"
    /\ hm.minSlotCountShift = 13
    /\ hm.slotCount = Pow2(13)

(***************************************************************************)
(* Properties of the B+ tree.                                              *)
(***************************************************************************)
\* a call has completed and left an open tree
tCompleted == tIsOpen /\ tphase # "crashed"

\* the keys has is asked for: every hot key, used or not, and the base keys
\* around the ends of the fill and around the gaps of the hot keys
TProbeIds ==
    {-j : j \in 1..Len(THotKeyList)}
        \cup ({1, 2, 3, 19, 20, 21, tref.lo - 1, tref.lo, tref.hi, tref.hi + 1}
                 \cap 1..(MaxFill + 1))

\* C2: every add, update, add_or_update and delete call on a tree that
\* started empty returns what the same call returns on the reference map,
\* and afterwards has(k) is (v, true) exactly for the pairs k -> v of the
\* reference map and (_, false) for every other key
C2_TreeRefinesMap ==
    /\ tphase # "off" => tres.agree
    /\ tCompleted =>
          \A id \in TProbeIds :
              HasRecord(TState, tKey(id), TRUE)
                  = [value |-> refGet(tref, id).value, ok |-> refGet(tref, id).present]

\* the live nodes of the tree
tLeaves == {a \in DOMAIN tfs : tfs[a].kind = "leaf"}

tNonLeaves == {a \in DOMAIN tfs : tfs[a].kind = "nonleaf"}

\* C4: after every completed operation the load size of every non-root node
\* lies in [UNDERLOAD, OVERLOAD] and that of the root is at most OVERLOAD
C4_LoadInBounds ==
    tCompleted =>
        /\ \A a \in tLeaves :
              /\ leafGetLoadSize(tfs, a) <= leafOverloadThreshold
              /\ a # tbpt.rootAddr => leafGetLoadSize(tfs, a) >= leafUnderloadThreshold
        /\ \A a \in tNonLeaves :
              /\ nonLeafGetLoadSize(tfs, a) <= nonLeafOverloadThreshold
              /\ a # tbpt.rootAddr => nonLeafGetLoadSize(tfs, a) >= nonLeafUnderloadThreshold

\* the smallest key stored in the subtree of a node, depth levels above the
\* leaves
RECURSIVE smallestKey(_, _, _)
smallestKey(fs, nodeAddr, depth) ==
    IF depth = 0 THEN ReadKey(fs, leafGetKey(fs, nodeAddr, 0))
    ELSE smallestKey(fs, GetChildAddr(fs, nodeAddr, 0), depth - 1)

\* the non-leaves of the tree with their depth above the leaves
tNonLeafDepths ==
    LET levels == tLevels(tfs, <<tbpt.rootAddr>>, tbpt.height - 1)
    IN  UNION {{[addr |-> levels[l][i], depth |-> tbpt.height - l] :
                   i \in 1..Len(levels[l])} : l \in 1..(tbpt.height - 1)}

\* C5: after every completed operation the keys of every leaf strictly
\* increase, and key i >= 1 of every non-leaf is the smallest key stored in
\* the subtree of its child i
C5_KeysOrdered ==
    tCompleted =>
        /\ \A a \in tLeaves :
              \A i \in 1..(NumberOfRecords(tfs, a) - 1) :
                  bytesCompare(ReadKey(tfs, leafGetKey(tfs, a, i - 1)),
                               ReadKey(tfs, leafGetKey(tfs, a, i))) < 0
        /\ \A n \in tNonLeafDepths :
              \A i \in 1..(NumberOfChildren(tfs, n.addr) - 1) :
                  ReadKey(tfs, nonLeafGetKey(tfs, n.addr, i))
                      = smallestKey(tfs, GetChildAddr(tfs, n.addr, i), n.depth - 1)

\* the leaves from leafAddr on along the next pointers, at most fuel of
\* them, up to the tail
RECURSIVE leafChain(_, _, _, _)
leafChain(fs, leafAddr, tailAddr, fuel) ==
    IF fuel = 0 THEN <<>>
    ELSE IF leafAddr = tailAddr THEN <<leafAddr>>
    ELSE <<leafAddr>> \o leafChain(fs, fs[leafAddr].next, tailAddr, fuel - 1)

\* the keys of the leaves of a chain, one after the other
chainKeys(fs, chain) ==
    flatten([l \in 1..Len(chain) |->
                [i \in 1..NumberOfRecords(fs, chain[l]) |->
                    ReadKey(fs, leafGetKey(fs, chain[l], i - 1))]])

\* C6: after every completed operation the next pointers lead from the head
\* leaf to the tail leaf through every live leaf exactly once, the prev
\* pointers lead back the same way, and the keys of the leaves on the way
\* are in ascending order
C6_LeafChain ==
    tCompleted =>
        LET chain == leafChain(tfs, tbpt.leafList.headAddr, tbpt.leafList.tailAddr,
                               Cardinality(tLeaves) + 1)
            keys == chainKeys(tfs, chain)
        IN  /\ Len(chain) = Cardinality(tLeaves)
            /\ {chain[i] : i \in 1..Len(chain)} = tLeaves
            /\ chain[Len(chain)] = tbpt.leafList.tailAddr
            /\ \A i \in 1..(Len(chain) - 1) : tfs[chain[i + 1]].prev = chain[i]
            /\ \A i \in 1..(Len(keys) - 1) : bytesCompare(keys[i], keys[i + 1]) < 0

\* hot key j is greater than exactly THotAfter[j] base keys
THotAfter ==
    [j \in 1..Len(THotKeyList) |->
        Cardinality({i \in 1..(MaxFill + 1) : bytesCompare(TBaseKey(i), THotKeyList[j]) < 0})]

\* the order of the keys, on their numbers
tKeyLess(a, b) ==
    IF a > 0
    THEN IF b > 0 THEN a < b ELSE a <= THotAfter[-b]
    ELSE IF b > 0 THEN THotAfter[-a] < b
         ELSE bytesCompare(THotKeyList[-a], THotKeyList[-b]) < 0

\* The pairs of the reference map with min <= key <= max in ascending key
\* order, min and max being keys given by their numbers: the base keys in
\* the interval, with the hot keys in the interval at their places
refRange(ref, min, max) ==
    LET bLo == Max2(ref.lo, IF min > 0 THEN min ELSE THotAfter[-min] + 1)
        bHi == Min2(ref.hi, IF max > 0 THEN max ELSE THotAfter[-max])
        nBase == Max2(0, bHi - bLo + 1)
        hots == {j \in DOMAIN ref.hot :
                    /\ ref.hot[j] # 0
                    /\ ~tKeyLess(-j, min)
                    /\ ~tKeyLess(max, -j)}
        \* the place of hot key j: behind the base keys and the hot keys
        \* below it
        place(j) == 1 + Cardinality({i \in bLo..bHi : i <= THotAfter[j]})
                      + Cardinality({k \in hots : tKeyLess(-k, -j)})
        idAt(p) == IF \E j \in hots : place(j) = p
                   THEN -(CHOOSE j \in hots : place(j) = p)
                   ELSE bLo + (p - 1) - Cardinality({j \in hots : place(j) < p})
    IN  [p \in 1..(nBase + Cardinality(hots)) |->
            [key |-> tKey(idAt(p)), value |-> refGet(ref, idAt(p)).value]]

\* the bounds range_forward is asked for: every hot key, used or not, and
\* the base keys around the gaps of the hot keys
TRangeProbeIds == {-j : j \in 1..Len(THotKeyList)} \cup {1, 2, 19, 20, 21}

\* C3: range_forward(min, max) with real bounds yields the stored records
\* with min <= key <= max, each once, in ascending key order, and nothing
\* when no stored key lies in [min, max]
C3_RangeForward ==
    tCompleted =>
        \A min \in TRangeProbeIds, max \in TRangeProbeIds :
            SearchForward(TState, tKey(min), tKey(max), tbpt.leafCount + 1)
                = refRange(tref, min, max)

\* the ascending drain of the tree of three levels has gone on for forty
\* keys: leaves were refilled from their right siblings and merged with
\* them, the keys above them followed, and the tree is back at two levels
C5_Witness ==
    /\ tCompleted
    /\ tphase = "asc"
    /\ tbpt.height = 2
    /\ tref.hi = FillThreeLevels
    /\ tref.lo > 40

\* the descending drain of the tree of three levels is down to three
\* leaves: the tail leaf was removed over and over
C6_Witness ==
    /\ tCompleted
    /\ tphase = "desc"
    /\ tbpt.leafCount = 3
    /\ tbpt.recordCount < FillThreeLevels

\* what a client can observe of the tree
tObservable(X) ==
    [has |-> [id \in TProbeIds |-> HasRecord(X, tKey(id), TRUE)],
     stats |-> [height |-> X.bpt.height,
                leafCount |-> X.bpt.leafCount,
                nonLeafCount |-> X.bpt.nonLeafCount,
                recordCount |-> X.bpt.recordCount,
                payloadSize |-> X.bpt.payloadSize],
     range |-> SearchForward(X, MinKey, MaxKey, X.bpt.leafCount + 1)]

\* C10: closing a dictionary and opening it again (Store, then Load from
\* the stored address) leaves has(k) of every key, every counter, and the
\* order of a full hash scan or of a full tree range iteration as they were
\* before the close
C10_StoreLoadPreserves ==
    [][/\ (hIsOpen /\ ~hIsOpen') =>
             hObservable(Load([hm |-> hm', fs |-> hfs'], hprimary')) = hObservable(HState)
       /\ (tIsOpen /\ ~tIsOpen') =>
             tObservable(bptLoad([bpt |-> tbpt', fs |-> tfs'], tprimary'))
                 = tObservable(TState)]_vars

\* a tree of two leaves with two hot keys, one of them with a value in
\* overflow, lies stored
C10_Witness ==
    /\ ~tIsOpen
    /\ tprimary >= 0
    /\ tfs[tprimary].info.Height = 2
    /\ tfs[tprimary].info.RecordCount = FillTwoLeaves + 2
    /\ \E j \in 1..NumTHotKeys : tref.hot[j] = 2
(***************************************************************************)
(* The scan of the hash map.                                               *)
(***************************************************************************)
\* the pairs of the reference map
refPairs == {[key |-> k, value |-> href[k].value] : k \in {x \in HKeys : href[x].present}}

\* the elements of a sequence
Range(seq) == {seq[i] : i \in 1..Len(seq)}

\* C11: a scan of a hash map that is not modified meanwhile, from a zero
\* cursor, returns every stored pair exactly once and then reports that no
\* item is left, also when it is asked again
C11_ScanReturnsAll ==
    hIsOpen =>
        /\ Range(scanFrom(HState, zeroCursor)) = refPairs
        /\ Len(scanFrom(HState, zeroCursor)) = Cardinality(refPairs)
        /\ ~FetchItem(HState, scanEnd(HState, zeroCursor)).ok

\* a scan over two slots, one of them with two items
C11_Witness ==
    /\ hIsOpen
    /\ hm.slotCount >= 2
    /\ Len(scanFrom(HState, zeroCursor)) = 3
    /\ \E i \in 0..(hm.slotCount - 1) :
           Len(loadSlot(hfs, addrRefGet(hfs, locateSlotAddr(hm, hfs, i))).ItemInfos) >= 2

\* how often the scan has returned key k
timesReturned(k) == Cardinality({i \in 1..Len(hres.returned) : hres.returned[i] = k})

cScanBegun == sphase \in {"scanning", "done"}

\* C12 as stated: a scan with Set and Clear calls between its calls returns
\* no key twice, and by its end it has returned every key that was in the
\* dictionary from the first Scan call on
C12_ScanInterleaved ==
    cScanBegun =>
        /\ \A k \in hres.stable : timesReturned(k) <= 1
        /\ sphase = "done" => \A k \in hres.stable : timesReturned(k) >= 1

\* C12 amended: a scan without a successful Set or Clear call between its
\* calls returns no key twice, and by its end it has returned exactly the
\* keys of the dictionary
C12_ScanUnmodified ==
    (cScanBegun /\ ~hres.modified) =>
        /\ \A k \in HKeys : timesReturned(k) <= 1
        /\ sphase = "done" => Range(hres.returned) = cPresent

\* the end of a scan of three keys in two or more slots, without a
\* modification meanwhile
C12_Witness ==
    /\ sphase = "done"
    /\ ~hres.modified
    /\ Len(hres.returned) = 3
    /\ hm.slotCount >= 2

(***************************************************************************)
(* Ranges in both directions and with the sentinels as bounds.             *)
(***************************************************************************)
Reverse(seq) == [i \in 1..Len(seq) |-> seq[Len(seq) + 1 - i]]

\* a second key between base key 19 and base key 20, behind hot key 1
TGapKey == mkBytes(<<1, 20, 2>>, 0)

\* The bounds the ranges are asked for.  At the checkpoints, where the
\* calls on the hot keys come in any order: the keys of TRangeProbeIds, the
\* key in the gap and the two sentinels.  Along the fill and the drains,
\* where a range holds hundreds of records: the two sentinels and the
\* greatest base key
TRangeBounds ==
    IF tAtCheckpoint
    THEN {tKey(id) : id \in TRangeProbeIds} \cup {TGapKey, MinKey, MaxKey}
    ELSE {MinKey, MaxKey, TBaseKey(tref.hi)}

\* C13: range_backward(a, b) yields the records range_forward(a, b) yields,
\* in the opposite order, for every tree and every pair of bounds
C13_BackwardIsReverse ==
    tCompleted =>
        \A a \in TRangeBounds, b \in TRangeBounds :
            SearchBackward(TState, a, b, tbpt.leafCount + 1)
                = Reverse(SearchForward(TState, a, b, tbpt.leafCount + 1))


\* a range over the boundary of the two leaves, with hot key 1 stored
\* between base key 19 and base key 20
C13_Witness ==
    /\ tCompleted
    /\ tAtCheckpoint
    /\ tbpt.leafCount = 2
    /\ tref.hot[1] # 0
    /\ Len(SearchBackward(TState, TBaseKey(19), MaxKey, 3)) = 21


\* the pairs of the reference map in ascending key order
refAll == refRange(tref, 1, MaxFill + 1)

\* C14: in a tree with a record the sentinels stand for the first and the
\* last record.  range_forward(MinKey, MaxKey) yields every record in
\* ascending order; range_forward(MinKey, MinKey), range_forward(min_key,
\* MinKey) and range_forward(MinKey, min_key) yield the record of the
\* smallest key min_key and nothing else; range_backward(MaxKey, MaxKey),
\* range_backward(max_key, MaxKey) and range_backward(MaxKey, max_key) yield
\* the record of the greatest key max_key and nothing else
C14_SentinelBounds ==
    (tCompleted /\ tbpt.recordCount >= 1) =>
        LET fuel == tbpt.leafCount + 1
            first == refAll[1]
            last == refAll[Len(refAll)]
        IN  /\ SearchForward(TState, MinKey, MaxKey, fuel) = refAll
            /\ SearchForward(TState, MinKey, MinKey, fuel) = <<first>>
            /\ SearchForward(TState, first.key, MinKey, fuel) = <<first>>
            /\ SearchForward(TState, MinKey, first.key, fuel) = <<first>>
            /\ SearchBackward(TState, MaxKey, MaxKey, fuel) = <<last>>
            /\ SearchBackward(TState, last.key, MaxKey, fuel) = <<last>>
            /\ SearchBackward(TState, MaxKey, last.key, fuel) = <<last>>

\* the tree of three levels, where the first and the last record lie at the
\* ends of a chain of leaves below several non-leaves
C14_Witness ==
    /\ tCompleted
    /\ tbpt.height = 3
    /\ tbpt.recordCount = FillThreeLevels
    /\ Len(SearchForward(TState, MinKey, MaxKey, tbpt.leafCount + 1)) = FillThreeLevels


\* C15 as stated: in every tree with a record, also a tree with exactly one
\* record, range_forward(MaxKey, MinKey) is at its end at once
C15_MaxMinEmpty ==
    (tCompleted /\ tbpt.recordCount >= 1) =>
        SearchForward(TState, MaxKey, MinKey, tbpt.leafCount + 1) = <<>>

\* C15 amended: range_forward(MaxKey, MinKey) is at its end at once in
\* every tree with two or more records; in a tree with exactly one record
\* it yields that record
C15_MaxMinEmptyFromTwo ==
    tCompleted =>
        /\ tbpt.recordCount >= 2 =>
               SearchForward(TState, MaxKey, MinKey, tbpt.leafCount + 1) = <<>>
        /\ tbpt.recordCount = 1 =>
               SearchForward(TState, MaxKey, MinKey, tbpt.leafCount + 1) = refAll

\* a tree whose one record is the record of a hot key
C15_Witness ==
    /\ tCompleted
    /\ tbpt.recordCount = 1
    /\ tref.hi = 0
    /\ tref.hot[2] # 0
    /\ Len(SearchForward(TState, MaxKey, MinKey, tbpt.leafCount + 1)) = 1


\* the keys of the records of the tree
tStoredKeys ==
    UNION {{ReadKey(tfs, tfs[a].recs[i].Key) : i \in 1..NumberOfRecords(tfs, a)} :
               a \in tLeaves}

\* C16: no add, update, add_or_update or delete call with a sentinel as its
\* key, on an empty tree or on a tree with records, leaves a record whose
\* key is the sentinel
C16_NoSentinelStored ==
    tCompleted => \A key \in tStoredKeys : key \notin {copyBytes(MinKey), copyBytes(MaxKey)}


(***************************************************************************)
(* The calls that change nothing.                                          *)
(***************************************************************************)
\* C17: in the hash map and in the tree, add(k, v) of a key the dictionary
\* holds returns false with the value stored for k (nothing when the value
\* is not asked for) and leaves the whole store as it was: the counters,
\* the payload size, every slot, node, item and record
C17_AddPresentUntouched ==
    /\ hIsOpen =>
          \A k \in HKeys, v \in HValues, do \in BOOLEAN :
              href[k].present =>
                  AddItem(HState, k, v, do)
                      = [value |-> hReturn(do, href[k]), ok |-> FALSE, S |-> HState]
    /\ tCompleted =>
          \A id \in TProbeIds, v \in 1..NumTValues, do \in BOOLEAN :
              refGet(tref, id).present =>
                  AddRecord(TState, tKey(id), TValueList[v], do)
                      = returned(TState, tReturn(do, refGet(tref, id)), FALSE)

\* a map of three slots holds a key with a replaced value, and add of that
\* key with another value returns the stored one
C17_Witness ==
    /\ hIsOpen
    /\ hm.slotCount = 3
    /\ \E k \in HKeys :
          /\ href[k] = [present |-> TRUE, value |-> HValueList[2]]
          /\ AddItem(HState, k, HValueList[1], TRUE).value = HValueList[2]
          /\ ~AddItem(HState, k, HValueList[1], TRUE).ok

\* C18: in the hash map and in the tree, update(k, v) and delete(k) of a key
\* the dictionary does not hold return false and nothing, and leave the
\* whole store as it was: the counters, the payload size, every slot, node,
\* item and record
C18_AbsentNoOp ==
    /\ hIsOpen =>
          \A k \in AllHKeys, v \in HValues, do \in BOOLEAN :
              ~refLookup(k).present =>
                  /\ UpdateItem(HState, k, v, do) = [value |-> <<>>, ok |-> FALSE, S |-> HState]
                  /\ DeleteItem(HState, k, do) = [value |-> <<>>, ok |-> FALSE, S |-> HState]
    /\ tCompleted =>
          \A id \in TProbeIds, v \in 1..NumTValues, do \in BOOLEAN :
              ~refGet(tref, id).present =>
                  /\ UpdateRecord(TState, tKey(id), TValueList[v], do)
                         = returned(TState, noBytes, FALSE)
                  /\ DeleteRecord(TState, tKey(id), do) = returned(TState, noBytes, FALSE)

\* a tree of two leaves lacks a hot key that lies between the base keys and
\* holds another one, and delete and update of the missing key return false
C18_Witness ==
    /\ tCompleted
    /\ tbpt.leafCount = 2
    /\ tref.hot[1] = 0
    /\ tref.hot[2] # 0
    /\ ~DeleteRecord(TState, THotKeyList[1], TRUE).ok
    /\ ~UpdateRecord(TState, THotKeyList[1], TValueList[2], TRUE).ok


(***************************************************************************)
(* The emptied hash map.                                                   *)
(***************************************************************************)
\* every item that was added has been deleted again
eEmptied == sphase \in {"live", "fill"} /\ hIsOpen /\ hres.count = 0

\* C19: once every key that was inserted is deleted again, in any order and
\* with or without a close and reopen in between, the hash map has one slot,
\* no item, payload size 0, minimum slot count 1, one slot directory and
\* room for 8 slot directory addresses
C19_EmptiedIsInitial ==
    eEmptied =>
        /\ hm.slotCount = 1
        /\ hm.itemCount = 0
        /\ hm.payloadSize = 0
        /\ minSlotCount(hm) = 1
        /\ hm.slotDirCount = 1
        /\ Pow2(hm.maxSlotDirCountShift) = 8

\* the map held MaxDrainItems items, more than 8 slot directories take, and
\* is empty again
C19_Witness == eEmptied /\ sphase = "fill" /\ hres.peak = MaxDrainItems

\* C20: Destroy of a hash map whose items have all been deleted frees every
\* region the map allocated: no region of the file storage is left allocated
C20_DestroyFreesAll ==
    (sphase = "destroyed" /\ hres.count = 0) => DOMAIN hfs = {}

\* the map held every key of HKeys, went through Store and Load, was emptied
\* and destroyed
C20_Witness ==
    /\ sphase = "destroyed"
    /\ hres = [count |-> 0, peak |-> NumHKeys]
    /\ hprimary >= 0
    /\ DOMAIN hfs = {}


(***************************************************************************)
(* The emptied tree.                                                       *)
(***************************************************************************)
\* the reference map holds no record
tEmptied == tCompleted /\ tref.lo > tref.hi /\ \A j \in 1..NumTHotKeys : tref.hot[j] = 0

\* C21: once every record is deleted again, the tree is a root leaf without
\* records (height 1, one leaf, no non-leaf, payload size 0), the root leaf
\* is the only region left allocated, and Destroy leaves none allocated
C21_EmptiedTreeFreed ==
    tEmptied =>
        /\ tbpt.height = 1
        /\ tbpt.leafCount = 1
        /\ tbpt.nonLeafCount = 0
        /\ tbpt.recordCount = 0
        /\ tbpt.payloadSize = 0
        /\ NumberOfRecords(tfs, tbpt.rootAddr) = 0
        /\ DOMAIN tfs = {tbpt.rootAddr}
        /\ DOMAIN bptDestroy(TState).fs = {}

\* a tree of three levels, whose keys all have an overflow region, was
\* emptied from the least key on
C21_Witness ==
    /\ tEmptied
    /\ tphase = "asc"
    /\ tref.hi = FillThreeLevels
    /\ DOMAIN bptDestroy(TState).fs = {}


(***************************************************************************)
(* The iterators of the tree.  The client fills the tree and, at one of    *)
(* the ICheckpoints, asks for a range in ascending or descending order and *)
(* goes on calling Advance, also after the iteration has no more records.  *)
(* tres holds the iterator and the number of records it passed.            *)
(***************************************************************************)
ICheckpoints == {0, 1, FillTwoLeaves}

IBounds ==
    {MinKey, MaxKey, THotKeyList[1], TGapKey} \cup {TBaseKey(i) : i \in {1, 19, 20, FillTwoLeaves}}

\* RangeAsc or RangeDesc
IOpen(dir, minKey, maxKey) ==
    /\ tphase = "fill"
    /\ tref.hi \in ICheckpoints
    /\ tres' = [it |-> IF dir = "asc"
                       THEN forwardIterator(search(TState, minKey, maxKey))
                       ELSE backwardIterator(search(TState, minKey, maxKey)),
                dir |-> dir, seen |-> 0]
    /\ tphase' = "iter"
    /\ UNCHANGED <<tbpt, tfs, tref, tprimary, hvars>>

IAdvance ==
    /\ tphase = "iter"
    /\ tres' = [tres EXCEPT !.it = IF tres.dir = "asc" THEN forwardAdvance(tfs, @)
                                   ELSE backwardAdvance(tfs, @),
                            !.seen = IF tres.it.isAtEnd THEN @ ELSE @ + 1]
    /\ UNCHANGED <<tbpt, tfs, tref, tprimary, tphase, hvars>>

INext ==
    \/ TFill
    \/ \E dir \in {"asc", "desc"}, minKey \in IBounds, maxKey \in IBounds :
          IOpen(dir, minKey, maxKey)
    \/ IAdvance

SpecIter == TInit /\ [][INext]_vars

\* what the reads of an iterator return
iteratorReads(fs, it) ==
    <<iteratorGetKeySize(fs, it), iteratorReadKey(fs, it, 0, maxKeySize),
      iteratorReadKey(fs, it, 1, 2), iteratorReadKeyAll(fs, it),
      iteratorGetValueSize(fs, it), iteratorReadValue(fs, it, 0, maxValueSize),
      iteratorReadValue(fs, it, 1, 2), iteratorReadValueAll(fs, it),
      iteratorReadRecordAll(fs, it)>>

\* the reads return the end-of-iteration error and no data
errEndOfIteration ==
    <<[data |-> 0, err |-> TRUE], [data |-> 0, err |-> TRUE], [data |-> 0, err |-> TRUE],
      [data |-> <<>>, err |-> TRUE],
      [data |-> 0, err |-> TRUE], [data |-> 0, err |-> TRUE], [data |-> 0, err |-> TRUE],
      [data |-> <<>>, err |-> TRUE],
      [data |-> <<>>, err |-> TRUE]>>

\* the iterator after n more Advance calls
RECURSIVE advanced(_, _)
advanced(it, n) ==
    IF n = 0 THEN it
    ELSE advanced(IF tres.dir = "asc" THEN forwardAdvance(tfs, it)
                  ELSE backwardAdvance(tfs, it), n - 1)

\* C22: once an iterator of the tree has no more records, IsAtEnd is true
\* after every further Advance call, Advance changes nothing a client can
\* see, and every read (key size, key, value size, value, whole record)
\* returns the end-of-iteration error and no data
C22_EndIsFinal ==
    (tphase = "iter" /\ tres.it.isAtEnd) =>
        \A n \in 0..3 :
            /\ advanced(tres.it, n).isAtEnd
            /\ iteratorReads(tfs, advanced(tres.it, n)) = errEndOfIteration

\* a descending iteration over the records of two leaves has come to its end
C22_Witness ==
    /\ tphase = "iter"
    /\ tres.dir = "desc"
    /\ tres.it.isAtEnd
    /\ tres.seen = FillTwoLeaves
    /\ tbpt.leafCount = 2


(***************************************************************************)
(* The stored form of keys and values.  A run takes one byte string, as a  *)
(* key or as a value, makes its stored form on a file storage that is      *)
(* empty or holds a region of somebody else, and destroys the stored form  *)
(* again.  tres holds the byte string, the file storage before the call,   *)
(* the stored form and what the destruction returned.                      *)
(***************************************************************************)
\* the length of the longest byte string
KMaxLen == 300

\* the lengths around the sizes at which the stored form changes
KLengths ==
    {0, 1, KMaxLen} \cup
        {t + d : t \in {maxValueSize - 8, maxValueSize, keyPrefixSize, maxKeySize},
                 d \in {-1, 0, 1}}

\* byte strings of n bytes: all zero, none zero, and zero but for the last
KStrings(n) ==
    {mkBytes(<<>>, n), mkBytes(Repeat(7, n), 0),
     mkBytes([i \in 1..n |-> IF i = n THEN 9 ELSE 0], 0)}

KInputs == UNION {KStrings(n) : n \in KLengths}

KStorages == {<<>>, AllocateSpace(<<>>, [kind |-> "overflow", data |-> mkBytes(<<3>>, 0)]).fs}

KInit ==
    /\ tfs \in KStorages
    /\ \E raw \in KInputs, kind \in {"key", "value"} :
          tres = [raw |-> raw, kind |-> kind, before |-> tfs,
                  stored |-> [pre |-> noBytes, addr |-> -1], size |-> -1]
    /\ tphase = "raw"
    /\ tbpt = bptInit
    /\ tref = <<>>
    /\ tprimary = -1
    /\ hUnused

\* the end of CreateKey or CreateValue
kCreated(stored, fs) ==
    /\ tres' = [tres EXCEPT !.stored = stored]
    /\ tfs' = fs
    /\ tphase' = "stored"
    /\ UNCHANGED <<tbpt, tref, tprimary, hvars>>

\* the end of DestroyKey or DestroyValue, which returned d
kDestroyed(d) ==
    /\ tres' = [tres EXCEPT !.size = d.size]
    /\ tfs' = d.fs
    /\ tphase' = "destroyed"
    /\ UNCHANGED <<tbpt, tref, tprimary, hvars>>

KNext ==
    \/ /\ tphase = "raw" /\ tres.kind = "key"
       /\ kCreated(CreateKey(tfs, tres.raw).key, CreateKey(tfs, tres.raw).fs)
    \/ /\ tphase = "raw" /\ tres.kind = "value"
       /\ kCreated(CreateValue(tfs, tres.raw).value, CreateValue(tfs, tres.raw).fs)
    \/ /\ tphase = "stored" /\ tres.kind = "key"
       /\ kDestroyed(DestroyKey(tfs, tres.stored))
    \/ /\ tphase = "stored" /\ tres.kind = "value"
       /\ kDestroyed(DestroyValue(tfs, tres.stored))

SpecCodec == KInit /\ [][KNext]_vars

\* the regions allocated since the run began
kAllocated == DOMAIN tfs \ DOMAIN tres.before

\* the size below which a byte string is stored as it is
kMaxSize == IF tres.kind = "key" THEN maxKeySize ELSE maxValueSize

\* ReadKeyAll or ReadValue of the stored form
kRead == IF tres.kind = "key" THEN ReadKey(tfs, tres.stored) ELSE ReadValue(tfs, tres.stored)

\* GetRawKeySize or GetValueSize of the stored form
kSize ==
    IF tres.kind = "key" THEN GetRawKeySize(tfs, tres.stored)
    ELSE GetValueSize(tfs, tres.stored)

\* C23: the stored form of a byte string b reads back as b and reports the
\* size len(b); a b below 257 bytes (129 for a value) allocates nothing, a
\* longer one exactly one overflow region; destroying the stored form frees
\* that region and returns len(b)
C23_CodecRoundTrip ==
    /\ tphase = "stored" =>
          /\ kRead = tres.raw
          /\ kSize = bytesLen(tres.raw)
          /\ Cardinality(kAllocated) = IF bytesLen(tres.raw) < kMaxSize THEN 0 ELSE 1
          /\ \A a \in kAllocated : tfs[a].kind = "overflow"
          /\ \A a \in DOMAIN tres.before : tfs[a] = tres.before[a]
    /\ tphase = "destroyed" =>
          /\ tfs = tres.before
          /\ tres.size = bytesLen(tres.raw)

\* a value of 129 bytes with a last byte that is not zero lies in 121 bytes
\* and an overflow region of 8, next to a region of somebody else
C23_Witness ==
    /\ tphase = "stored"
    /\ tres.kind = "value"
    /\ bytesLen(tres.raw) = maxValueSize
    /\ byteAt(tres.raw, maxValueSize) # 0
    /\ tres.before # <<>>
    /\ Cardinality(kAllocated) = 1
    /\ kRead = tres.raw


\* C24: comparing the stored form of a key a, kept as it is or as a prefix
\* of 249 bytes and an overflow region, with a raw key b gives the sign of
\* the comparison of a and b byte by byte
C24_CompareStored ==
    (tphase = "stored" /\ tres.kind = "key") =>
        \A b \in KInputs :
            Sign(CompareKey(tfs, tres.stored, b)) = Sign(bytesCompare(tres.raw, b))

\* a stored key with an overflow region is less than a key that differs from
\* it in the last byte only, greater than its own prefix and equal to itself
C24_Witness ==
    /\ tphase = "stored"
    /\ tres.kind = "key"
    /\ tres.stored.addr >= 0
    /\ tres.raw = mkBytes(<<>>, maxKeySize + 1)
    /\ CompareKey(tfs, tres.stored, mkBytes([i \in 1..(maxKeySize + 1) |->
                                                IF i = maxKeySize + 1 THEN 9 ELSE 0], 0)) < 0
    /\ CompareKey(tfs, tres.stored, mkBytes(<<>>, keyPrefixSize)) > 0
    /\ CompareKey(tfs, tres.stored, tres.raw) = 0


(***************************************************************************)
(* The slot of an item.                                                    *)
(***************************************************************************)
\* the items of slot i
slotItems(i) == unpackSlot(loadSlot(hfs, addrRefGet(hfs, locateSlotAddr(hm, hfs, i))))

\* the places (slot, position) at which the key k lies
placesOf(k) ==
    {p \in (0..(hm.slotCount - 1)) \X (1..hm.itemCount) :
        p[2] <= Len(slotItems(p[1])) /\ slotItems(p[1])[p[2]].Key = k}

\* h & (2^(s+1) - 1), less 2^s when that is no slot yet
homeSlot(k) ==
    LET i == sumKey(k) % Pow2(hm.minSlotCountShift + 1)
    IN  IF i >= hm.slotCount THEN i - Pow2(hm.minSlotCountShift) ELSE i

\* C25: after every operation each stored item lies in exactly one slot, the
\* slot i = h & (2^(s+1) - 1), or i & ~2^s when i >= slot_count, with h the
\* sum of its key and s the minimum slot shift; this is the slot a lookup
\* of the key goes to
C25_ItemInHomeSlot ==
    hIsOpen =>
        /\ \A i \in 0..(hm.slotCount - 1) :
              \A j \in 1..Len(slotItems(i)) : homeSlot(slotItems(i)[j].Key) = i
        /\ \A k \in HKeys :
              Cardinality(placesOf(k)) = IF href[k].present THEN 1 ELSE 0
        /\ \A k \in AllHKeys : calculateSlotIndex(hm, sumKey(k)) = homeSlot(k)

\* with three slots the key whose sum ends in the bits 11 lies in slot 1
C25_Witness ==
    /\ hIsOpen
    /\ hm.slotCount = 3
    /\ hm.minSlotCountShift = 1
    /\ sumKey(HKeyList[3]) % 4 = 3
    /\ placesOf(HKeyList[3]) # {}
    /\ \A p \in placesOf(HKeyList[3]) : p[1] = 1


\* C26: no leaf and no non-leaf is ever written beyond its capacity: after
\* every insertion, key replacement and value replacement in a page, those
\* of shifts, splits, merges and syncKey included, the load size of the page
\* is at most the page size less the header size
C26_NoPageOverrun ==
    /\ \A a \in tLeaves :
          ~tfs[a].overrun /\ leafGetLoadSize(tfs, a) <= maxLeafFreeSpaceSize
    /\ \A a \in tNonLeaves :
          ~tfs[a].overrun /\ nonLeafGetLoadSize(tfs, a) <= maxNonLeafFreeSpaceSize


\* ---------------------------------------------------------------------
\* The record path after the rebalancing

\* the path leads from the root to a leaf: it is as long as the tree is high
\* and each component is the child at the index of the component above
pathLeadsToLeaf(XP) ==
    LET path == XP.path
        n == Len(path)
    IN  /\ n = XP.bpt.height
        /\ path[1].NodeAddr = XP.bpt.rootAddr
        /\ \A i \in 1..(n - 1) :
              /\ XP.fs[path[i].NodeAddr].kind = "nonleaf"
              /\ path[i].RecordOrNonLeafChildIndex
                     \in 0..(NumberOfChildren(XP.fs, path[i].NodeAddr) - 1)
              /\ GetChildAddr(XP.fs, path[i].NodeAddr, path[i].RecordOrNonLeafChildIndex)
                     = path[i + 1].NodeAddr
        /\ XP.fs[path[n].NodeAddr].kind = "leaf"

\* the end of the path is the record of the key
pathHoldsKey(XP, key) ==
    LET loc == locateRecord(XP.path)
    IN  /\ loc.recordIndex \in 0..(NumberOfRecords(XP.fs, loc.leafAddr) - 1)
        /\ CompareKey(XP.fs, leafGetKey(XP.fs, loc.leafAddr, loc.recordIndex), key) = 0

\* the end of the path is the place the record of the key was taken from:
\* between the records with the lesser and with the greater keys
pathHoldsGap(XP, key) ==
    LET loc == locateRecord(XP.path)
        n == NumberOfRecords(XP.fs, loc.leafAddr)
        i == loc.recordIndex
    IN  /\ i \in 0..n
        /\ i >= 1 => CompareKey(XP.fs, leafGetKey(XP.fs, loc.leafAddr, i - 1), key) < 0
        /\ i < n => CompareKey(XP.fs, leafGetKey(XP.fs, loc.leafAddr, i), key) > 0

\* the keys a call may come with next: the hot keys, the next base key and
\* the least and the greatest base key in the tree
TNextKeys ==
    {THotKeyList[j] : j \in 1..NumTHotKeys}
        \cup {TBaseKey(i) : i \in {tref.lo, tref.hi, tref.hi + 1} \cap 1..MaxFill}

\* insertRecord of the key, which is not in the tree, up to the count
tInserted(key, v) ==
    LET c == createRecord(TState, key, TValueList[v])
    IN  insertRebalanced([bpt |-> c.bpt, fs |-> c.fs], findRecord(TState, key).path,
                         c.record)

\* removeRecord of the key, which is in the tree, up to the count
tRemoved(key) == removeRebalanced(TState, findRecord(TState, key).path)

tReturns(XP) == overrunPages(XP.fs) = {}

\* C27: in every call that returns, the record path that the rebalancing
\* of an insertion leaves leads from the root to the leaf and the index of
\* the inserted record, and the one that the rebalancing of a removal
\* leaves leads to the place the record was taken from; it is as long as
\* the tree is high and each component is the child at the index of the
\* component above
C27_PathFollowsRecord ==
    tCompleted =>
        \A key \in TNextKeys :
            IF findRecord(TState, key).ok
            THEN tReturns(tRemoved(key)) =>
                    /\ pathLeadsToLeaf(tRemoved(key))
                    /\ pathHoldsGap(tRemoved(key), key)
            ELSE \A v \in 1..NumTValues :
                    tReturns(tInserted(key, v)) =>
                        /\ pathLeadsToLeaf(tInserted(key, v))
                        /\ pathHoldsKey(tInserted(key, v), key)

\* a rebalancing moved the record: the path that it leaves is another than
\* the one findRecord found, in a tree of two levels or more
C27_Witness ==
    /\ tCompleted
    /\ tbpt.height >= 2
    /\ \E key \in TNextKeys :
          IF findRecord(TState, key).ok
          THEN /\ tReturns(tRemoved(key))
               /\ tRemoved(key).path # findRecord(TState, key).path
               /\ tRemoved(key).bpt.leafCount < tbpt.leafCount
          ELSE /\ tReturns(tInserted(key, 1))
               /\ tInserted(key, 1).path # findRecord(TState, key).path
               /\ tInserted(key, 1).bpt.leafCount > tbpt.leafCount


\* ---------------------------------------------------------------------
\* A client that takes the first key of a leaf away after a short key came
\* behind it: SetIfNotExists of the base keys, SetIfNotExists of the short
\* key behind base key b, Clear of base key b

\* base keys that are the first of their leaf in the tree of three levels
\* (20 and 39), and one key that is not (21)
GCutIds == {20, 21, 39}

\* the short key behind base key b
GShortKey(b) == mkBytes(<<1 + (b \div 200), 1 + (b % 200), 1>>, 0)

GNext ==
    \/ TFill
    \/ \E b \in GCutIds :
          /\ tphase = "fill"
          /\ tref.hi = FillThreeLevels
          /\ tReturned(AddRecord(TState, GShortKey(b), TValueList[1], FALSE),
                       <<noBytes, TRUE>>,
                       [lo |-> tref.lo, hi |-> tref.hi, hot |-> tref.hot, cut |-> b],
                       "short")
    \/ /\ tphase = "short"
       /\ tReturned(DeleteRecord(TState, TBaseKey(tref.cut), TRUE),
                    <<TBaseValue, TRUE>>, tref, "cut")

SpecDemote == TInit /\ [][GNext]_vars

\* the component of the path where syncKey sets the key, from component i
\* upwards; -1 when it sets none
RECURSIVE syncKeyLevel(_, _)
syncKeyLevel(XP, i) ==
    IF i < 0 THEN -1
    ELSE IF XP.path[i + 1].RecordOrNonLeafChildIndex >= 1 THEN i
    ELSE syncKeyLevel(XP, i - 1)

\* the component where syncKey sets the key in the tree XP that an
\* insertion or a removal left
tSyncLevel(XP) ==
    LET n == Len(XP.path)
    IN  IF n < 2 \/ XP.path[n].RecordOrNonLeafChildIndex >= 1 THEN -1
        ELSE syncKeyLevel(XP, n - 2)

\* the tree after the SetKey of syncKey and the ensureNotUnderloadNonLeaf
\* behind it
tSyncRefilled(XP) == ensureNotUnderloadNonLeaf(syncKeySet(XP, tSyncLevel(XP)), tSyncLevel(XP))

\* component i of the path names, after the step, a non-leaf of the level
\* it named before: the path is as long as before
tKeepsLevel(XP) ==
    tSyncLevel(XP) >= 0 =>
        /\ Len(tSyncRefilled(XP).path) = Len(XP.path)
        /\ LET a == tSyncRefilled(XP).path[tSyncLevel(XP) + 1].NodeAddr
           IN  tSyncRefilled(XP).fs[a].kind = "nonleaf"

\* the keys the next call of the client may come with
GNextKeys ==
    TNextKeys \cup (IF tphase = "short" THEN {TBaseKey(tref.cut)} ELSE {})

\* C27 (the steps behind a rebalancing): in syncKey, the
\* ensureNotOverloadNonLeaf that follows ensureNotUnderloadNonLeaf at
\* component i operates on the non-leaf of the level where the key was set:
\* the path is as long as before and its component i is a non-leaf
C27_StepsOnIntendedLevel ==
    tCompleted =>
        \A key \in GNextKeys :
            IF findRecord(TState, key).ok
            THEN tKeepsLevel(removedAt(TState, findRecord(TState, key).path))
            ELSE LET c == createRecord(TState, key, TValueList[1])
                 IN  tKeepsLevel(insertedAt([bpt |-> c.bpt, fs |-> c.fs],
                                            findRecord(TState, key).path, c.record))


\* ---------------------------------------------------------------------
\* The views across the calls to the file storage

\* the hot keys the tree holds
tHotPresent == {j \in 1..NumTHotKeys : findRecord(TState, THotKeyList[j]).ok}

\* C28 (replaceValue): the replaceValue that a SetIfExists or a Set of a
\* present key runs uses no view that was got before a FreeSpace or an
\* AllocateSpace of the same call: the view of the leaf through which
\* SetValue writes is got after DestroyValue and CreateValue
C28_NoStaleView ==
    tCompleted => \A j \in tHotPresent, v \in 1..NumTValues : ~tStale(THotKeyList[j], v)


\* ---------------------------------------------------------------------
\* The shifts between sibling leaves

\* the load sizes of the leaf lc and of its sibling after k records went
\* from lc to the sibling: the last k to the right one, the first k to the
\* left one
shiftedLoads(fs, lc, sibling, k, toRight) ==
    LET recs == fs[lc].recs
        n == Len(recs)
        moved == recordsSize(IF toRight THEN SubSeq(recs, n - k + 1, n)
                             ELSE SubSeq(recs, 1, k))
    IN  [from |-> leafGetLoadSize(fs, lc) - moved,
         to |-> leafGetLoadSize(fs, sibling) + moved]

leafInBounds(loadSize) == loadSize \in leafUnderloadThreshold..leafOverloadThreshold

\* the counts of records whose transfer leaves both leaves in bounds
goodShifts(fs, lc, sibling, toRight) ==
    {k \in 1..NumberOfRecords(fs, lc) :
        /\ leafInBounds(shiftedLoads(fs, lc, sibling, k, toRight).from)
        /\ leafInBounds(shiftedLoads(fs, lc, sibling, k, toRight).to)}

leastOrZero(S) == IF S = {} THEN 0 ELSE CHOOSE k \in S : \A m \in S : k <= m

\* the count the engine shifts from lc to the sibling
shiftCount(fs, lc, sibling, toRight) ==
    IF toRight THEN CountRecordsForShiftingToRight(fs, lc, sibling)
    ELSE CountRecordsForShiftingToLeft(fs, lc, sibling)

\* The shifts that ensureNotOverloadLeaf (relief) or ensureNotUnderloadLeaf
\* looks at for the leaf at the end of the path of XP: the one with the
\* right sibling and, when that one moves nothing, the one with the left
\* sibling.  A relief shifts from the leaf, a refill shifts to it
shiftTries(XP, relief) ==
    LET n == Len(XP.path)
        fs == XP.fs
        leafAddr == XP.path[n].NodeAddr
        parent == XP.path[n - 1].NodeAddr
        leafIndex == XP.path[n - 1].RecordOrNonLeafChildIndex
        hasR == leafIndex < NumberOfChildren(fs, parent) - 1
        hasL == leafIndex >= 1
        R == GetChildAddr(fs, parent, leafIndex + 1)
        L == GetChildAddr(fs, parent, leafIndex - 1)
        try(from, to, toRight) == [from |-> from, to |-> to, toRight |-> toRight]
        tryR == IF relief THEN try(leafAddr, R, TRUE) ELSE try(R, leafAddr, FALSE)
        tryL == IF relief THEN try(leafAddr, L, FALSE) ELSE try(L, leafAddr, TRUE)
        due == IF relief THEN leafGetLoadSize(fs, leafAddr) > leafOverloadThreshold
               ELSE leafGetLoadSize(fs, leafAddr) < leafUnderloadThreshold
    IN  IF n < 2 \/ ~due THEN {}
        ELSE (IF hasR THEN {tryR} ELSE {})
             \cup (IF hasL /\ (~hasR \/ shiftCount(fs, tryR.from, tryR.to, tryR.toRight) = 0)
                   THEN {tryL} ELSE {})

\* the shift moves the least count of records that leaves both leaves in
\* bounds, and none when there is no such count
leastShift(fs, t) ==
    shiftCount(fs, t.from, t.to, t.toRight)
        = leastOrZero(goodShifts(fs, t.from, t.to, t.toRight))

\* the trees in which the next call of the client looks for a shift: after
\* the insertion or the removal and syncKey
tShiftTrees ==
    {[XP |-> IF findRecord(TState, key).ok
             THEN syncKey(removedAt(TState, findRecord(TState, key).path))
             ELSE LET c == createRecord(TState, key, TValueList[v])
                  IN  syncKey(insertedAt([bpt |-> c.bpt, fs |-> c.fs],
                                         findRecord(TState, key).path, c.record)),
      relief |-> ~findRecord(TState, key).ok] :
        <<key, v>> \in TNextKeys \X (1..NumTValues)}

\* C29 (leaves): whenever ensureNotOverloadLeaf or ensureNotUnderloadLeaf
\* shifts records between two sibling leaves, it moves the least number of
\* records after which the load sizes of both lie between
\* leafUnderloadThreshold and leafOverloadThreshold, and it moves none
\* when no number of records does
C29_LeastShiftInBounds ==
    tCompleted =>
        \A s \in tShiftTrees : \A t \in shiftTries(s.XP, s.relief) : leastShift(s.XP.fs, t)


\* ---------------------------------------------------------------------
\* The splits

\* the load sizes of the leaf lc and of the new leaf after the last m
\* records went to the new leaf
leafSplitLoads(fs, lc, m) ==
    LET recs == fs[lc].recs
        moved == recordsSize(SubSeq(recs, Len(recs) - m + 1, Len(recs)))
    IN  [left |-> leafGetLoadSize(fs, lc) - moved, new |-> moved]

\* the same for the non-leaf nlc: the key of the first child that moves
\* goes to the parent, and the child is left with its header
nonLeafSplitLoads(fs, nlc, m) ==
    LET children == fs[nlc].children
        n == Len(children)
    IN  [left |-> nonLeafGetLoadSize(fs, nlc) - childrenSize(SubSeq(children, n - m + 1, n)),
         new |-> nonLeafChildHeaderSize + childrenSize(SubSeq(children, n - m + 2, n))]

\* k of the n entries even the two nodes out: the node that splits is left
\* in bounds, no shorter suffix leaves it with no more than the new node
\* gets, and the suffix ends there unless one more entry would take the
\* node that splits below the underload threshold
evensOut(k, n, loads(_), underload, overload) ==
    /\ k \in 1..(n - 1)
    /\ loads(k).left \in underload..overload
    /\ \A m \in 1..(k - 1) : loads(m).left > loads(m).new
    /\ loads(k).left <= loads(k).new \/ loads(k + 1).left < underload

\* k is the least number of entries that leaves the node that splits in
\* bounds
leastInBounds(k, n, loads(_), underload, overload) ==
    k = leastOrZero({m \in 1..n : loads(m).left \in underload..overload})

\* The trees in which the next SetIfNotExists of the client splits a leaf:
\* the leaf at the end of the path is overloaded and is the root, or no
\* shift with a sibling moves a record
tLeafSplits ==
    {s.XP : s \in {s \in tShiftTrees :
        LET n == Len(s.XP.path)
        IN  /\ s.relief
            /\ overrunPages(s.XP.fs) = {}
            /\ leafGetLoadSize(s.XP.fs, s.XP.path[n].NodeAddr) > leafOverloadThreshold
            /\ \A t \in shiftTries(s.XP, TRUE) :
                   shiftCount(s.XP.fs, t.from, t.to, t.toRight) = 0}}

\* the tree with the leaf split, before ensureNotOverloadNonLeaf looks at
\* the parent
leafSplitDone(XP) ==
    leafRelieved(IF Len(XP.path) = 1 THEN increaseHeightOnPath(XP) ELSE XP)

\* the parent of the leaf that split is overloaded and is the root, or no
\* shift with a sibling moves a child: it splits next
nonLeafSplitDue(XP) ==
    LET fs == XP.fs
        i == Len(XP.path) - 2
        nlc == XP.path[i + 1].NodeAddr
        parent == XP.path[i].NodeAddr
        index == XP.path[i].RecordOrNonLeafChildIndex
    IN  /\ nonLeafGetLoadSize(fs, nlc) > nonLeafOverloadThreshold
        /\ i >= 1 =>
              /\ index < NumberOfChildren(fs, parent) - 1 =>
                    CountChildrenForShiftingToRight(fs, nlc,
                        GetChildAddr(fs, parent, index + 1)) = 0
              /\ index >= 1 =>
                    CountChildrenForShiftingToLeft(fs, nlc,
                        GetChildAddr(fs, parent, index - 1)) = 0

tLeafOf(XP) == XP.path[Len(XP.path)].NodeAddr

tParentOf(XP) == XP.path[Len(XP.path) - 1].NodeAddr

\* C30 (as stated): the number of entries that a split moves to the new
\* sibling is the least that leaves the node that splits between the
\* underload and the overload threshold
C30_SplitLeastSuffix ==
    tCompleted =>
        \A XP \in tLeafSplits :
            leastInBounds(CountRecordsForSpliting(XP.fs, tLeafOf(XP)),
                          NumberOfRecords(XP.fs, tLeafOf(XP)),
                          LAMBDA m : leafSplitLoads(XP.fs, tLeafOf(XP), m),
                          leafUnderloadThreshold, leafOverloadThreshold)

\* C30 (amended): a split moves to the new sibling the shortest suffix of
\* the entries after which the node that splits holds no more than the new
\* sibling, or the longest that does not take the node that splits below
\* the underload threshold if that one is shorter; the node that splits is
\* left between the underload and the overload threshold
C30_SplitEvensOut ==
    tCompleted =>
        \A XP \in tLeafSplits :
            /\ evensOut(CountRecordsForSpliting(XP.fs, tLeafOf(XP)),
                        NumberOfRecords(XP.fs, tLeafOf(XP)),
                        LAMBDA m : leafSplitLoads(XP.fs, tLeafOf(XP), m),
                        leafUnderloadThreshold, leafOverloadThreshold)
            /\ nonLeafSplitDue(leafSplitDone(XP)) =>
                  LET Y == leafSplitDone(XP)
                  IN  evensOut(CountChildrenForSpliting(Y.fs, tParentOf(Y)),
                               NumberOfChildren(Y.fs, tParentOf(Y)),
                               LAMBDA m : nonLeafSplitLoads(Y.fs, tParentOf(Y), m),
                               nonLeafUnderloadThreshold, nonLeafOverloadThreshold)

\* the next SetIfNotExists splits a leaf and then the parent of the leaf,
\* and the leaf gives more than one record to the new leaf
C30_Witness ==
    /\ tCompleted
    /\ \E XP \in tLeafSplits :
          /\ CountRecordsForSpliting(XP.fs, tLeafOf(XP)) > 1
          /\ nonLeafSplitDue(leafSplitDone(XP))


\* ---------------------------------------------------------------------
\* The chain and the parent around a split and a merge

\* the tree in which ensureNotOverloadLeaf splits: a root that is a leaf
\* got a non-leaf above it first
tSplitStart(XP) == IF Len(XP.path) = 1 THEN increaseHeightOnPath(XP) ELSE XP

\* the leaves of a tree from the head to the tail
chainOf(X) ==
    leafChain(X.fs, X.bpt.leafList.headAddr, X.bpt.leafList.tailAddr,
              Cardinality({a \in DOMAIN X.fs : X.fs[a].kind = "leaf"}) + 1)

\* the sequence with x behind its element p
insertedAfter(seq, p, x) == SubSeq(seq, 1, p) \o <<x>> \o SubSeq(seq, p + 1, Len(seq))

\* the sequence without its element p
removedFrom(seq, p) == SubSeq(seq, 1, p - 1) \o SubSeq(seq, p + 1, Len(seq))

\* the prev pointers lead back along the chain, and the chain is closed to
\* a ring at its ends
chainClosed(X, chain) ==
    /\ chain[Len(chain)] = X.bpt.leafList.tailAddr
    /\ \A p \in 1..(Len(chain) - 1) : X.fs[chain[p + 1]].prev = chain[p]
    /\ X.fs[chain[1]].prev = chain[Len(chain)]
    /\ X.fs[chain[Len(chain)]].next = chain[1]

tLeafIndexOf(XP) == XP.path[Len(XP.path) - 1].RecordOrNonLeafChildIndex

\* C31: when a leaf is split, the new leaf comes into the chain right
\* behind the leaf that splits and is the tail when that one was the tail,
\* and the parent gets exactly one child, right behind the child of the
\* leaf that splits, with the address of the new leaf and the key of the
\* first record of the new leaf
C31_SplitLinksLeaf ==
    tCompleted =>
        \A XP \in tLeafSplits :
            LET A == tSplitStart(XP)
                B == leafSplitDone(XP)
                leaf == tLeafOf(A)
                parent == tParentOf(A)
                new == B.fs[leaf].next
                before == chainOf(A)
                after == chainOf(B)
                tail == A.bpt.leafList.tailAddr
            IN  /\ new \notin DOMAIN A.fs
                /\ B.fs[new].kind = "leaf"
                /\ \E p \in 1..Len(before) :
                      /\ before[p] = leaf
                      /\ after = insertedAfter(before, p, new)
                /\ chainClosed(B, after)
                /\ B.bpt.leafList.tailAddr = IF leaf = tail THEN new ELSE tail
                /\ B.bpt.leafList.headAddr = A.bpt.leafList.headAddr
                /\ B.fs[parent].children
                      = insertedAfter(A.fs[parent].children, tLeafIndexOf(A) + 1,
                                      [Key |-> leafGetKey(B.fs, new, 0), Addr |-> new])
                /\ NumberOfRecords(B.fs, new) >= 1

\* the next SetIfNotExists splits a leaf that is not the tail of the chain
\* and has a parent already, and another next one splits the tail
C31_Witness ==
    /\ tCompleted
    /\ \E XP \in tLeafSplits :
          /\ Len(XP.path) >= 2
          /\ tLeafOf(XP) # XP.bpt.leafList.tailAddr
    /\ \E XP \in tLeafSplits : tLeafOf(XP) = XP.bpt.leafList.tailAddr


\* The trees in which the next Clear of the client merges a leaf: the leaf
\* at the end of the path is underloaded, is not the root and borrows from
\* no sibling
tLeafMerges ==
    {s.XP : s \in {s \in tShiftTrees :
        LET n == Len(s.XP.path)
        IN  /\ ~s.relief
            /\ n >= 2
            /\ overrunPages(s.XP.fs) = {}
            /\ leafGetLoadSize(s.XP.fs, s.XP.path[n].NodeAddr) < leafUnderloadThreshold
            /\ ~leafRefilled(s.XP).shifted}}

\* the tree with the leaf merged, before ensureNotUnderloadNonLeaf looks at
\* the parent
leafMergeDone(XP) == leafRefilled(XP).XP

\* the parent of the leaves that merged is underloaded, is not the root and
\* borrows from no sibling: it merges next
nonLeafMergeDue(XP) ==
    LET i == Len(XP.path) - 2
    IN  /\ i >= 1
        /\ nonLeafGetLoadSize(XP.fs, XP.path[i + 1].NodeAddr) < nonLeafUnderloadThreshold
        /\ ~nonLeafRefilled(XP, i).shifted

\* the two nodes that merge when the child at index of parent does: the
\* node that is kept, the node that is freed and the child index of the
\* node that is freed
mergingPair(fs, parent, index) ==
    LET hasR == index < NumberOfChildren(fs, parent) - 1
    IN  [kept |-> GetChildAddr(fs, parent, IF hasR THEN index ELSE index - 1),
         freed |-> GetChildAddr(fs, parent, IF hasR THEN index + 1 ELSE index),
         at |-> IF hasR THEN index + 1 ELSE index]

\* B is A with the region freed gone and the child at of parent removed,
\* and with the other regions of the kind of freed in place
oneNodeFreed(A, B, parent, m) ==
    /\ m.freed \notin DOMAIN B.fs
    /\ {a \in DOMAIN B.fs : B.fs[a].kind = A.fs[m.freed].kind}
          = {a \in DOMAIN A.fs : A.fs[a].kind = A.fs[m.freed].kind} \ {m.freed}
    /\ B.fs[parent].children = removedFrom(A.fs[parent].children, m.at + 1)
    /\ overrunPages(B.fs) = {}

\* C32: when an underloaded node that is not the root borrows from neither
\* sibling, it takes in the entries of its right sibling under the same
\* parent and the right sibling is freed, or, without a right sibling, its
\* left sibling takes in its entries and the node is freed; the parent
\* loses exactly the child of the freed node, and of the leaves exactly the
\* freed one leaves the chain
C32_MergeFreesOne ==
    tCompleted =>
        \A A \in tLeafMerges :
            LET B == leafMergeDone(A)
                parent == tParentOf(A)
                m == mergingPair(A.fs, parent, tLeafIndexOf(A))
                before == chainOf(A)
                after == chainOf(B)
                tail == A.bpt.leafList.tailAddr
            IN  /\ tLeafOf(A) = IF m.at = tLeafIndexOf(A) THEN m.freed ELSE m.kept
                /\ oneNodeFreed(A, B, parent, m)
                /\ B.fs[m.kept].recs = A.fs[m.kept].recs \o A.fs[m.freed].recs
                /\ \E p \in 1..Len(before) :
                      /\ before[p] = m.freed
                      /\ after = removedFrom(before, p)
                /\ chainClosed(B, after)
                /\ B.bpt.leafList.tailAddr = IF m.freed = tail THEN m.kept ELSE tail
                /\ B.bpt.leafList.headAddr = A.bpt.leafList.headAddr
                /\ nonLeafMergeDue(B) =>
                      LET i == Len(B.path) - 2
                          C == nonLeafRefilled(B, i).XP
                          grand == B.path[i].NodeAddr
                          index == B.path[i].RecordOrNonLeafChildIndex
                          n == mergingPair(B.fs, grand, index)
                      IN  /\ B.path[i + 1].NodeAddr
                                = IF n.at = index THEN n.freed ELSE n.kept
                          /\ oneNodeFreed(B, C, grand, n)
                          /\ C.fs[n.kept].children
                                = B.fs[n.kept].children
                                    \o [B.fs[n.freed].children EXCEPT
                                           ![1].Key = B.fs[grand].children[n.at + 1].Key]
                          /\ chainOf(C) = after

\* the next Clear merges a leaf that is the tail of the chain into its left
\* sibling, and the parent of the two merges next
C32_Witness ==
    /\ tCompleted
    /\ \E A \in tLeafMerges :
          /\ mergingPair(A.fs, tParentOf(A), tLeafIndexOf(A)).freed = tLeafOf(A)
          /\ tLeafOf(A) = A.bpt.leafList.tailAddr
          /\ nonLeafMergeDue(leafMergeDone(A))


(***************************************************************************)
(* The slots of the hash map around a split and a merge.  The client of     *)
(* SpecHash calls on a few keys, and the slots hold its items.  Next to it  *)
(* runs the scale client, whose items are left out as in SpecScale, on a    *)
(* real file storage: it starts from the map as it is after n successful    *)
(* AddItem calls on a new map (wFilled) or after WPeak such calls and       *)
(* DeleteItem calls down to n items (wDrained), and makes SlotsRun calls    *)
(* from there.  SpecClimb makes every call from Create on and reaches       *)
(* exactly these states (ClimbReachesStarts).                               *)
(***************************************************************************)
\* number of calls the scale client makes from where it starts
SlotsRun == 30
\* number of items the map held before the scale client drained it
WPeak == 53100
\* numbers of items the scale client starts to add from: before the second
\* slot directory and before the ninth, which does not fit the array of 8
WFillFrom == {6610, 53000}
\* numbers of items it starts to delete from: before the fifth slot
\* directory and before the fourth is given back
WDrainFrom == {9960, 6640}

\* the number of slots after n AddItem calls on a new map
wFillSlots(n) ==
    CHOOSE s \in ((5 * n) \div 9)..(((2 * n) \div 3) + 1) :
        /\ s >= 1
        /\ ~loadFactorAboveMax(n, s)
        /\ s = 1 \/ loadFactorAboveMax(n, s - 1)

\* the number of slots after DeleteItem calls that left n items and merged
wDrainSlots(n) ==
    CHOOSE s \in ((10 * n) \div 9)..(((5 * n) \div 4) + 1) :
        /\ ~loadFactorBelowMin(n, s)
        /\ loadFactorBelowMin(n, s + 1)

RECURSIVE wLog2(_)
wLog2(s) == IF s < 2 THEN 0 ELSE 1 + wLog2(s \div 2)

\* the map with n items left out in s empty slots: the array of the slot
\* directories at address 0 with dirsKnown addresses written, directory d
\* at address d + 1, and used slot addresses written so far
wScaled(n, s, dirCount, dirShift, dirsKnown, used) ==
    [hm |-> [slotDirsAddr |-> 0, maxSlotDirCountShift |-> dirShift,
             slotDirCount |-> dirCount, minSlotCountShift |-> wLog2(s),
             slotCount |-> s, itemCount |-> n, payloadSize |-> 0],
     fs |-> [a \in 0..dirCount |->
                IF a = 0 THEN [kind |-> "dirs", ent |-> [d \in 0..(dirsKnown - 1) |-> d + 1]]
                ELSE [kind |-> "dir",
                      ent |-> [i \in 0..(Min2(Pow2(slotDirLengthShift),
                                              used - (a - 1) * Pow2(slotDirLengthShift)) - 1)
                                  |-> -1]]]]

wFilled(n) ==
    LET s == wFillSlots(n)
        dirCount == ((s - 1) \div Pow2(slotDirLengthShift)) + 1
    IN  wScaled(n, s, dirCount, IF dirCount > 8 THEN 4 ELSE 3, dirCount, s)

wDrained(n) ==
    LET s == wDrainSlots(n)
        dirCount == ((s - 2) \div Pow2(slotDirLengthShift)) + 2
    IN  wScaled(n, s, dirCount, IF dirCount > 4 THEN 4 ELSE 3,
                IF dirCount > 4 THEN 9 ELSE 8, dirCount * Pow2(slotDirLengthShift))

wStart(S, from, phase) ==
    /\ hm = S.hm
    /\ hfs = S.fs
    /\ href = [from |-> from]
    /\ hres = <<>>
    /\ hprimary = -1
    /\ sphase = phase
    /\ tUnused

WInit ==
    \/ HInit
    \/ \E n \in WFillFrom : wStart(wFilled(n), n, "fill")
    \/ \E n \in WDrainFrom : wStart(wDrained(n), n, "drain")

\* a successful AddItem of the scale client
WAdd ==
    LET S == postAddItem(HState)
    IN  /\ sphase = "fill"
        /\ hm.itemCount < href.from + SlotsRun
        /\ hm' = S.hm
        /\ hfs' = S.fs
        /\ UNCHANGED <<href, hres, hprimary, sphase, tvars>>

\* a successful DeleteItem of the scale client
WDelete ==
    LET S == postDeleteItem(HState)
    IN  /\ sphase = "drain"
        /\ hm.itemCount > href.from - SlotsRun
        /\ hm' = S.hm
        /\ hfs' = S.fs
        /\ UNCHANGED <<href, hres, hprimary, sphase, tvars>>

WNext ==
    \/ sphase = "off" /\ HNext
    \/ WAdd
    \/ WDelete

SpecSlots == WInit /\ [][WNext]_vars

\* the scale client from Create on: WPeak AddItem calls, then DeleteItem
\* calls
ClimbInit == wStart(Create(<<>>), 0, "fill")

ClimbAdd ==
    LET S == postAddItem(HState)
    IN  /\ sphase = "fill"
        /\ hm' = S.hm
        /\ hfs' = S.fs
        /\ sphase' = IF S.hm.itemCount = WPeak THEN "drain" ELSE "fill"
        /\ UNCHANGED <<href, hres, hprimary, tvars>>

ClimbDelete ==
    LET S == postDeleteItem(HState)
    IN  /\ sphase = "drain"
        /\ hm.itemCount > 6000
        /\ hm' = S.hm
        /\ hfs' = S.fs
        /\ UNCHANGED <<href, hres, hprimary, sphase, tvars>>

SpecClimb == ClimbInit /\ [][ClimbAdd \/ ClimbDelete]_vars

\* where the scale client of SpecSlots starts is where SpecClimb gets to
ClimbReachesStarts ==
    /\ sphase = "fill" /\ hm.itemCount \in WFillFrom \cup {0, 1, 2, 3, 100, 6630, 14000, 53030}
          => HState = wFilled(hm.itemCount)
    /\ sphase = "drain" /\ hm.itemCount \in WDrainFrom \cup {9940, 6620}
          => HState = wDrained(hm.itemCount)

\* what stands for a slot that the slot directories no longer lead to
lostSlot == [at |-> <<-2, 0>>, addr |-> -2, slot |-> emptySlot]

\* slot i of the map as the file holds it: the slot directory and the place
\* in it where its address is written, the address and the region there
slotAt(S, i) ==
    LET d == i \div Pow2(slotDirLengthShift)
        e == i % Pow2(slotDirLengthShift)
        dirs == S.fs[S.hm.slotDirsAddr].ent
        dir == S.fs[dirs[d]]
    IN  IF S.hm.slotDirsAddr \notin DOMAIN S.fs THEN lostSlot
        ELSE IF d \notin DOMAIN dirs THEN lostSlot
        ELSE IF dirs[d] \notin DOMAIN S.fs THEN lostSlot
        ELSE IF dir.kind # "dir" \/ e \notin DOMAIN dir.ent THEN lostSlot
        ELSE IF dir.ent[e] < 0 THEN [at |-> <<dirs[d], e>>, addr |-> -1, slot |-> emptySlot]
        ELSE IF dir.ent[e] \notin DOMAIN S.fs THEN lostSlot
        ELSE IF S.fs[dir.ent[e]].kind # "slot" THEN lostSlot
        ELSE [at |-> <<dirs[d], e>>, addr |-> dir.ent[e], slot |-> S.fs[dir.ent[e]].slot]

\* the map when the next successful AddItem gets to maybeExpand, and when
\* the next successful DeleteItem gets to maybeShrink
hAdded ==
    IF sphase # "off" THEN {[HState EXCEPT !.hm.itemCount = @ + 1]}
    ELSE IF ~hIsOpen THEN {}
    ELSE {[itemAppended(HState, locateItem(HState, k, sumKey(k)).items,
                        [KeySum |-> sumKey(k), Key |-> k, Value |-> v])
              EXCEPT !.hm.itemCount = @ + 1] :
             <<k, v>> \in {kv \in HKeys \X HValues : ~href[kv[1]].present}}

hDeleted ==
    IF sphase # "off" THEN {[HState EXCEPT !.hm.itemCount = @ - 1]}
    ELSE IF ~hIsOpen THEN {}
    ELSE {[itemRemoved(HState, locateItem(HState, k, sumKey(k)).items,
                       locateItem(HState, k, sumKey(k)).i)
              EXCEPT !.hm.itemCount = @ - 1] : k \in {k \in HKeys : href[k].present}}

splitDue(S) == loadFactorAboveMax(S.hm.itemCount, S.hm.slotCount)

mergeDue(S) == S.hm.slotCount >= 2 /\ loadFactorBelowMin(S.hm.itemCount, S.hm.slotCount)

\* the maps in which the next call splits a slot, and those in which it
\* merges one: in the first turn of the loop of maybeShrink or in the second
hSplits == {S \in hAdded : splitDue(S)}

hMerges ==
    {S \in hDeleted : mergeDue(S)}
        \cup {shrinkOnce(S) : S \in {S \in hDeleted : mergeDue(S) /\ mergeDue(shrinkOnce(S))}}

\* the slots 0..(n - 1) but slot p are in B what they are in A
slotsKept(A, B, n, p) ==
    /\ \A i \in (0..(n - 1)) \ {p} :
          /\ slotAt(A, i) # lostSlot
          /\ slotAt(B, i) = slotAt(A, i)
    /\ slotAt(B, p) # lostSlot
    /\ \A i \in (0..(n - 1)) \ {p} :
          slotAt(B, p).addr >= 0 => slotAt(B, i).addr # slotAt(B, p).addr

\* C33: a split of the hash map writes the parent slot, the one at index
\* slot_count & ~2^min_slot_shift, and makes the slot at index slot_count,
\* and a merge removes the last slot and writes its parent slot; every
\* other slot has the address and the contents it had, also when the split
\* adds a slot directory, the merge gives one back, or the array of the
\* slot directories grows or shrinks
C33_OtherSlotsKept ==
    /\ \A A \in hSplits :
          LET B == expandOnce(A)
              s == A.hm.slotCount
          IN  /\ B.hm.slotCount = s + 1
              /\ slotsKept(A, B, s, AndNot(s, Pow2(A.hm.minSlotCountShift)))
              /\ slotAt(B, s) # lostSlot
              /\ \A i \in 0..(s - 1) :
                    slotAt(B, s).addr >= 0 => slotAt(B, i).addr # slotAt(B, s).addr
    /\ \A A \in hMerges :
          LET B == shrinkOnce(A)
              s == A.hm.slotCount
          IN  /\ B.hm.slotCount = s - 1
              /\ slotsKept(A, B, s - 1, AndNot(s - 1, Pow2(B.hm.minSlotCountShift)))

\* the next AddItem splits slot 0 of 2^15 slots: the new slot needs a ninth
\* slot directory, and the array of the slot directories, which holds 8
\* addresses, is made anew
C33_Witness ==
    /\ sphase = "fill"
    /\ \E A \in hSplits :
          /\ A.hm.slotCount = Pow2(minMaxSlotDirCountShift + slotDirLengthShift)
          /\ A.hm.slotDirCount = Pow2(A.hm.maxSlotDirCountShift)
          /\ expandOnce(A).hm.maxSlotDirCountShift = minMaxSlotDirCountShift + 1


\* C34 (as stated): one turn of the loop of maybeExpand or of maybeShrink
\* brings the load factor back between minLoadFactor and maxLoadFactor: a
\* successful insert splits at most one slot and a successful delete merges
\* at most one
C34_OneTurnSuffices ==
    /\ \A A \in hSplits : ~splitDue(expandOnce(A))
    /\ \A A \in hDeleted : mergeDue(A) => ~mergeDue(shrinkOnce(A))

\* C34 (amended): a successful insert splits at most one slot, a successful
\* delete merges at most two, and then the loop ends with the load factor
\* no longer out of bounds on the side it was
C34_OneSplitTwoMerges ==
    /\ \A A \in hAdded :
          /\ maybeExpand(A) = IF splitDue(A) THEN expandOnce(A) ELSE A
          /\ ~splitDue(maybeExpand(A))
          /\ splitDue(A) => ~mergeDue(expandOnce(A))
    /\ \A A \in hDeleted :
          /\ maybeShrink(A) = IF ~mergeDue(A) THEN A
                              ELSE IF ~mergeDue(shrinkOnce(A)) THEN shrinkOnce(A)
                              ELSE shrinkOnce(shrinkOnce(A))
          /\ ~mergeDue(maybeShrink(A))
          /\ mergeDue(A) => ~splitDue(maybeShrink(A))

\* the next DeleteItem, of one of 17 items, merges two slots
C34_Witness ==
    /\ hm.itemCount = 17
    /\ \E A \in hDeleted :
          /\ mergeDue(A)
          /\ mergeDue(shrinkOnce(A))
          /\ maybeShrink(A).hm.slotCount = A.hm.slotCount - 2


\* C35: after every completed operation of the hash map, maxSlotDirCountShift
\* is at least 3, slotDirCount is at most 2^maxSlotDirCountShift, and when
\* maxSlotDirCountShift is above 3 the array of the slot directories is more
\* than a quarter full: slotDirCount > 2^maxSlotDirCountShift / 4
C35_DirArrayBounds ==
    hIsOpen =>
        /\ hm.maxSlotDirCountShift >= minMaxSlotDirCountShift
        /\ hm.slotDirCount >= 1
        /\ hm.slotDirCount <= Pow2(hm.maxSlotDirCountShift)
        /\ hm.maxSlotDirCountShift > minMaxSlotDirCountShift
              => 4 * hm.slotDirCount > Pow2(hm.maxSlotDirCountShift)

\* five slot directories in an array of sixteen, and the next DeleteItem
\* gives one back and halves the array
C35_Witness ==
    /\ hIsOpen
    /\ hm.maxSlotDirCountShift = minMaxSlotDirCountShift + 1
    /\ hm.slotDirCount = 5
    /\ \E A \in hDeleted :
          /\ maybeShrink(A).hm.slotDirCount = 4
          /\ maybeShrink(A).hm.maxSlotDirCountShift = minMaxSlotDirCountShift


\* the items stored in slots 0 .. n - 1, in the order of the slots
RECURSIVE storedItems(_, _)
storedItems(S, n) ==
    IF n = 0 THEN <<>>
    ELSE storedItems(S, n - 1) \o unpackSlot(slotAt(S, n - 1).slot)

RECURSIVE payloadOf(_)
payloadOf(items) ==
    IF items = <<>> THEN 0
    ELSE Len(Head(items).Key) + Len(Head(items).Value) + payloadOf(Tail(items))

countersMatch(S) ==
    LET items == storedItems(S, S.hm.slotCount)
    IN  /\ S.hm.itemCount = Len(items)
        /\ S.hm.payloadSize = payloadOf(items)

\* the calls that replace the value of a present key by one of another length
hReplaced ==
    {r.S : r \in {UpdateItem(HState, k, v, TRUE) :
                      k \in {x \in HKeys : href[x].present /\ HasItem(HState, x, FALSE).ok},
                      v \in HValues}
           \cup {AddOrUpdateItem(HState, k, v, TRUE) :
                      k \in {x \in HKeys : href[x].present /\ HasItem(HState, x, FALSE).ok},
                      v \in HValues}}

\* C36: after every completed operation of the hash map, itemCount is the
\* number of the stored items and payloadSize the sum of len(key) + len(value)
\* over them, which are the items of the reference map; a replacement of a
\* value by UpdateItem or AddOrUpdateItem keeps it so
C36_CountersMatchItems ==
    hIsOpen =>
        /\ countersMatch(HState)
        /\ hm.itemCount = Cardinality({k \in HKeys : href[k].present})
        /\ \A k \in HKeys : href[k].present =>
              \E i \in 1..hm.itemCount :
                  LET item == storedItems(HState, hm.slotCount)[i]
                  IN  item.Key = k /\ item.Value = href[k].value
        /\ \A A \in hReplaced : countersMatch(A) /\ A.hm.itemCount = hm.itemCount

\* three items in more than one slot, and the next UpdateItem replaces a
\* value of two bytes by the empty value: payloadSize goes down by two
C36_Witness ==
    /\ hIsOpen
    /\ hm.itemCount = 3
    /\ hm.slotCount >= 2
    /\ \E k \in HKeys :
          /\ href[k].present
          /\ Len(href[k].value) = 2
          /\ LET r == UpdateItem(HState, k, <<>>, TRUE)
             IN  /\ r.ok
                 /\ r.S.hm.payloadSize = hm.payloadSize - 2
                 /\ countersMatch(r.S)


\* the records of the leaves of a sequence, one leaf after the other
tRecordsOf(fs, leaves) == flatten([l \in 1..Len(leaves) |-> fs[leaves[l]].recs])

\* the sum of the raw key and value lengths of records lo..hi
RECURSIVE tPayloadOf(_, _, _, _)
tPayloadOf(fs, recs, lo, hi) ==
    IF lo > hi THEN 0
    ELSE IF lo = hi
    THEN bytesLen(ReadKey(fs, recs[lo].Key)) + bytesLen(ReadValue(fs, recs[lo].Value))
    ELSE LET mid == (lo + hi) \div 2
         IN  tPayloadOf(fs, recs, lo, mid) + tPayloadOf(fs, recs, mid + 1, hi)

seqSet(s) == {s[i] : i \in 1..Len(s)}

\* C37: after every completed operation of the tree, recordCount is the
\* number of the stored records, payloadSize the sum of the raw key and value
\* lengths of them, leafCount and nonLeafCount the numbers of the live leaves
\* and non-leaves, and height, at least 1, the number of the nodes on every
\* path from the root to a leaf
C37_TreeCountersMatch ==
    tCompleted =>
        LET levels == tLevels(tfs, <<tbpt.rootAddr>>, tbpt.height - 1)
            recs == tRecordsOf(tfs, levels[tbpt.height])
        IN  /\ tbpt.height >= 1
            /\ \A l \in 1..tbpt.height : \A i \in 1..Len(levels[l]) :
                  /\ levels[l][i] \in DOMAIN tfs
                  /\ tfs[levels[l][i]].kind
                        = IF l = tbpt.height THEN "leaf" ELSE "nonleaf"
            /\ seqSet(levels[tbpt.height]) = tLeaves
            /\ UNION {seqSet(levels[l]) : l \in 1..(tbpt.height - 1)} = tNonLeaves
            /\ tbpt.leafCount = Cardinality(tLeaves)
            /\ tbpt.leafCount = Len(levels[tbpt.height])
            /\ tbpt.nonLeafCount = Cardinality(tNonLeaves)
            /\ tbpt.recordCount = Len(recs)
            /\ tbpt.payloadSize = tPayloadOf(tfs, recs, 1, Len(recs))

\* a tree of three levels: the root over two non-leaves, more than twenty
\* leaves, and records whose keys have overflow regions
C37_Witness ==
    /\ tCompleted
    /\ tbpt.height = 3
    /\ tbpt.nonLeafCount = 3
    /\ tbpt.leafCount > 20
    /\ tbpt.recordCount > 20 * 19
    /\ tbpt.payloadSize = tbpt.recordCount * (bytesLen(TBaseKey(1)) + bytesLen(TBaseValue))
    /\ \E a \in DOMAIN tfs : tfs[a].kind = "overflow"


(***************************************************************************)
(* splitItems and mergeItems as functions of their arguments: the items of *)
(* one slot, in any order, split by one bit of the key sums and merged     *)
(* again.  hres holds the arguments and the results, sphase the step.      *)
(***************************************************************************)
\* the most items of the slot
MaxSlotItems == 4

\* the bits of the key sum a split goes by
SplitBits == {Pow2(b) : b \in 0..3}

\* the item of key i of HKeyList as appendItem stores it
slotItem(i) ==
    [KeySum |-> IF Len(HKeyList[i]) <= maxShortKeySize THEN 0 ELSE sumKey(HKeyList[i]),
     Key |-> HKeyList[i],
     Value |-> HValueList[1 + (i % Len(HValueList))]]

\* the lists of n items with distinct keys
RECURSIVE slotLists(_)
slotLists(n) ==
    IF n = 0 THEN {<<>>}
    ELSE {Append(p[1], slotItem(p[2])) :
              p \in {q \in slotLists(n - 1) \X (1..Len(HKeyList)) :
                        \A j \in 1..Len(q[1]) : q[1][j].Key # HKeyList[q[2]]}}

IInit ==
    /\ \E n \in 0..MaxSlotItems : \E items \in slotLists(n) : \E bit \in SplitBits :
          hres = [items |-> items, bit |-> bit,
                  items1 |-> <<>>, items2 |-> <<>>, merged |-> <<>>]
    /\ sphase = "list"
    /\ hm = hmInit
    /\ hfs = <<>>
    /\ href = <<>>
    /\ hprimary = -1
    /\ tUnused

ISplit ==
    LET r == splitItems(hres.items, hres.bit)
    IN  /\ sphase = "list"
        /\ hres' = [hres EXCEPT !.items1 = r.items1, !.items2 = r.items2]
        /\ sphase' = "split"
        /\ UNCHANGED <<hm, hfs, href, hprimary, tvars>>

IMerge ==
    /\ sphase = "split"
    /\ hres' = [hres EXCEPT !.merged = mergeItems(hres.items1, hres.items2)]
    /\ sphase' = "merged"
    /\ UNCHANGED <<hm, hfs, href, hprimary, tvars>>

INextItems == ISplit \/ IMerge

SpecItems == IInit /\ [][INextItems]_vars

\* how many times x is in the list
timesIn(list, x) == Cardinality({k \in 1..Len(list) : list[k] = x})

sameItems(a, b) ==
    /\ Len(a) = Len(b)
    /\ \A k \in 1..Len(a) : timesIn(a, a[k]) = timesIn(b, a[k])

\* the key sum splitItems goes by
splitSum(item) ==
    IF Len(item.Key) <= maxShortKeySize THEN fnvWrite(fnvOffsetLow, item.Key)
    ELSE item.KeySum

\* C38: the items of a slot split by a bit of the key sum and merged again
\* are the same items, none lost, none twice, none altered; the split puts
\* the items with the bit in the second list and the others in the first;
\* the merged list is a function of the two lists and splits into them again
C38_SplitMergeRoundTrip ==
    /\ sphase \in {"split", "merged"} =>
          /\ sameItems(hres.items1 \o hres.items2, hres.items)
          /\ \A k \in 1..Len(hres.items1) : ~BitSet(splitSum(hres.items1[k]), hres.bit)
          /\ \A k \in 1..Len(hres.items2) : BitSet(splitSum(hres.items2[k]), hres.bit)
    /\ sphase = "merged" =>
          /\ sameItems(hres.merged, hres.items)
          /\ hres.merged = mergeItems(hres.items1, hres.items2)
          /\ splitItems(hres.merged, hres.bit)
                = [items1 |-> hres.items1, items2 |-> hres.items2]

\* four items that split three to one and merged in another order than
\* they were in
C38_Witness ==
    /\ sphase = "merged"
    /\ Len(hres.items1) = 3
    /\ Len(hres.items2) = 1
    /\ hres.merged # hres.items
    /\ hres.merged[1] = hres.items2[1]


\* the number of Advance calls after which the iterator has no more records,
\* fuel + 1 if it still has some after fuel calls
RECURSIVE advancesToEnd(_, _, _, _)
advancesToEnd(fs, dir, it, fuel) ==
    IF it.isAtEnd THEN 0
    ELSE IF fuel = 0 THEN 1
    ELSE 1 + advancesToEnd(fs, dir,
                           IF dir = "asc" THEN forwardAdvance(fs, it)
                           ELSE backwardAdvance(fs, it),
                           fuel - 1)

\* the base keys stored with lo <= key <= hi, a sentinel standing for the
\* least or the greatest stored key
iStoredBetween(minKey, maxKey) ==
    LET lo == IF minKey = MinKey THEN TBaseKey(1)
              ELSE IF minKey = MaxKey THEN TBaseKey(tref.hi) ELSE minKey
        hi == IF maxKey = MinKey THEN TBaseKey(1)
              ELSE IF maxKey = MaxKey THEN TBaseKey(tref.hi) ELSE maxKey
    IN  {i \in 1..tref.hi : /\ bytesCompare(lo, TBaseKey(i)) <= 0
                            /\ bytesCompare(TBaseKey(i), hi) <= 0}

\* the iterator RangeAsc or RangeDesc returns
iOpened(dir, minKey, maxKey) ==
    IF dir = "asc" THEN forwardIterator(search(TState, minKey, maxKey))
    ELSE backwardIterator(search(TState, minKey, maxKey))

\* C39: on an unchanged tree the iterator of range_forward or range_backward
\* has no more records after exactly as many Advance calls as there are
\* records in the range; it stops at the endpoint and does not go round the
\* ring of the leaves
C39_AdvancesAreRecordsInRange ==
    (tphase = "fill" /\ tref.hi \in ICheckpoints) =>
        \A dir \in {"asc", "desc"}, minKey \in IBounds, maxKey \in IBounds :
            advancesToEnd(tfs, dir, iOpened(dir, minKey, maxKey), tbpt.recordCount + 1)
                = Cardinality(iStoredBetween(minKey, maxKey))


\* the regions that hold the info of a stored hash map or tree
infoRegions(fs) == {a \in DOMAIN fs : fs[a].kind = "info"}

====
